---- MODULE Spec2Model ----
(***************************************************************************)
(* Authentication core of the DevLogs backend: the login flow of           *)
(* app/api/auth.py (identity provider first, password-verification RPC as  *)
(* fallback, locally issued token) and the bearer-token verifier of        *)
(* app/core/security.py (get_current_user / _decode_token).                *)
(***************************************************************************)
EXTENDS Integers, Sequences, FiniteSets, TLC

(* ------------------------------------------------------------------ *)
(* Bounds of the model                                                 *)
(* ------------------------------------------------------------------ *)

\* How many times the clock advances in one behaviour.
MaxTicks == 2

\* How many times it advances in a behaviour of sessions, where two
\* tokens are held at a time.
MaxSessionTicks == 1

(* ------------------------------------------------------------------ *)
(* Program constants                                                   *)
(* ------------------------------------------------------------------ *)

\* leeway=30 of both pyjwt.decode calls (seconds of clock skew).
Leeway == 30

\* timedelta(hours=1) of the locally issued token, in seconds.
TokenTTL == 3600

\* status.HTTP_401_UNAUTHORIZED and status.HTTP_503_SERVICE_UNAVAILABLE.
HTTP_401_UNAUTHORIZED == 401
HTTP_503_SERVICE_UNAVAILABLE == 503

\* status.HTTP_400_BAD_REQUEST, HTTP_409_CONFLICT and
\* HTTP_500_INTERNAL_SERVER_ERROR.
HTTP_400_BAD_REQUEST == 400
HTTP_409_CONFLICT == 409
HTTP_500_INTERNAL_SERVER_ERROR == 500

\* status_code=404 of the handlers of logs and projects.
HTTP_404_NOT_FOUND == 404

\* The clock value of the initial state (seconds since the epoch, scaled).
StartTime == 5000

\* The amounts by which the clock advances: the skew tolerance, and one
\* second less than the lifetime of a local token (which is more than the
\* lifespan of a cached key set).
Jumps == {Leeway, TokenTTL - 1}

(* ------------------------------------------------------------------ *)
(* Values                                                              *)
(* ------------------------------------------------------------------ *)

\* Python's None, and a key that a dict does not hold.
Null == "<None>"

\* User ids are UUIDs (the mock user of app/core/database.py is the first).
UUID1 == "00000000-0000-0000-0000-000000000123"
UUID2 == "6f1c2d3e-0000-4000-8000-00000000abcd"
\* The same UUID as UUID2, written in upper case.
UUID2Upper == "6F1C2D3E-0000-4000-8000-00000000ABCD"
NotUUID == "not-a-uuid"
\* The id the provider gives a user it has just created.
UUID3 == "9a8b7c6d-0000-4000-8000-00000000beef"

UserIds == {UUID1, UUID2}

Emails == {"a@x.com", "b@y.org"}

\* uuid.UUID(hex): the canonical (lower-case) form of a well-formed UUID
\* string, "ValueError" for anything else.
UUID(s) ==
    CASE s = UUID1 -> UUID1
      [] s = UUID2 -> UUID2
      [] s = UUID2Upper -> UUID2
      [] s = UUID3 -> UUID3
      [] OTHER -> "ValueError"

\* email.split("@")[0]
LocalPart(email) ==
    CASE email = "a@x.com" -> "a"
      [] email = "b@y.org" -> "b"
      [] email = "new@z.io" -> "new"
      [] OTHER -> email

\* s.strip()
Strip(s) ==
    CASE s = " Ann " -> "Ann"
      [] s = "  " -> ""
      [] OTHER -> s

\* The messages a provider response may carry.
DuplicateWordings ==
    {"User already registered", "Email Already Registered",
     "A user with this email address has already been registered"}
WeakPasswordWording == "Password should be at least 6 characters"

\* Lower leaving the letter case as it is.
Lower_CaseKept(s) == s

\* s.lower()
Lower(s) ==
    CASE s = "User already registered" -> "user already registered"
      [] s = "Email Already Registered" -> "email already registered"
      [] s = "A user with this email address has already been registered"
           -> "a user with this email address has already been registered"
      [] s = WeakPasswordWording -> "password should be at least 6 characters"
      [] s = "Signup failed" -> "signup failed"
      [] OTHER -> s

\* "already registered" in s
ContainsAlreadyRegistered(s) ==
    s \in {"user already registered", "email already registered",
           "User already registered"}

\* Python truthiness of an optional string: None and "" are falsy.
Truthy(s) == s # Null /\ s # ""

\* a or b, on optional strings.
Or(a, b) == IF Truthy(a) THEN a ELSE b

(* ------------------------------------------------------------------ *)
(* Keys and tokens                                                     *)
(* ------------------------------------------------------------------ *)

\* settings.JWT_SECRET, and some other secret.
JWT_SECRET == "JWT_SECRET"
OTHER_SECRET == "OTHER_SECRET"

\* The key set the provider publishes at /auth/v1/.well-known/jwks.json:
\* key-id -> the key pair and its type. An attacker's pair is not in it.
PublishedKids == {"k1"}
JwksKey(kid) == [pair |-> "K1", kty |-> "EC"]

SymmetricAlgs == {"HS256", "HS384", "HS512"}

\* The key type an asymmetric algorithm works with.
AlgKty(alg) ==
    CASE alg = "ES256" -> "EC"
      [] alg = "RS256" -> "RSA"
      [] alg = "PS256" -> "RSA"
      [] OTHER -> "oct"

\* A JWT: the header (alg, kid), the key its signature was made with, and
\* the claims. wellformed = FALSE is a string that is no JWT at all.
NoToken ==
    [wellformed |-> FALSE, alg |-> Null, kid |-> Null, sigkey |-> Null,
     sub |-> Null, email |-> Null, aud |-> Null, role |-> Null,
     iat |-> 0, exp |-> 0]

Token(alg, kid, sigkey, sub, email, aud, role, iat, exp) ==
    [wellformed |-> TRUE, alg |-> alg, kid |-> kid, sigkey |-> sigkey,
     sub |-> sub, email |-> email, aud |-> aud, role |-> role,
     iat |-> iat, exp |-> exp]

(* ------------------------------------------------------------------ *)
(* Token Verifier: app/core/security.py                                *)
(* ------------------------------------------------------------------ *)

\* The exception classes of PyJWT that are PyJWTError.
PyJWTErrors ==
    {"DecodeError", "InvalidAlgorithmError", "InvalidSignatureError",
     "ExpiredSignatureError", "PyJWKClientError",
     "PyJWKClientConnectionError"}

\* The outcome of a decode: err = "" and the verified payload, or the name
\* of the exception raised.
Decoded(tok) == [err |-> "", payload |-> tok]
Raised(name) == [err |-> name, payload |-> NoToken]

\* PyJwtDecode validating the claims before it verifies the signature.
PyJwtDecode_ClaimsFirst(tok, key, kty, algorithms, now) ==
    IF tok.alg \notin algorithms THEN Raised("InvalidAlgorithmError")
    ELSE IF AlgKty(tok.alg) # kty THEN Raised("TypeError")
    ELSE IF tok.exp <= now - Leeway THEN Raised("ExpiredSignatureError")
    ELSE IF tok.sigkey # key THEN Raised("InvalidSignatureError")
    ELSE Decoded(tok)

\* PyJwtDecode with the audience verified (verify_aud left at its default).
PyJwtDecode_VerifiesAud(tok, key, kty, algorithms, now) ==
    IF tok.alg \notin algorithms THEN Raised("InvalidAlgorithmError")
    ELSE IF AlgKty(tok.alg) # kty THEN Raised("TypeError")
    ELSE IF tok.sigkey # key THEN Raised("InvalidSignatureError")
    ELSE IF tok.exp <= now - Leeway THEN Raised("ExpiredSignatureError")
    ELSE IF tok.aud # Null THEN Raised("InvalidAudienceError")
    ELSE Decoded(tok)

\* PyJwtDecode called without leeway.
PyJwtDecode_NoLeeway(tok, key, kty, algorithms, now) ==
    IF tok.alg \notin algorithms THEN Raised("InvalidAlgorithmError")
    ELSE IF AlgKty(tok.alg) # kty THEN Raised("TypeError")
    ELSE IF tok.sigkey # key THEN Raised("InvalidSignatureError")
    ELSE IF tok.exp <= now THEN Raised("ExpiredSignatureError")
    ELSE Decoded(tok)

\* pyjwt.decode(token, key, algorithms=..., options={"verify_aud": False},
\* leeway=30): the algorithm must be an allowed one, the key must be of
\* the algorithm's type, the signature must verify under the key, and
\* only then are the claims validated: exp <= now - leeway is expired,
\* the audience is not looked at.
PyJwtDecode(tok, key, kty, algorithms, now) ==
    IF tok.alg \notin algorithms THEN Raised("InvalidAlgorithmError")
    ELSE IF AlgKty(tok.alg) # kty THEN Raised("TypeError")
    ELSE IF tok.sigkey # key THEN Raised("InvalidSignatureError")
    ELSE IF tok.exp <= now - Leeway THEN Raised("ExpiredSignatureError")
    ELSE Decoded(tok)

\* PyJWKClient(jwks_url) keeps the key set it fetched for lifespan seconds
\* (300 unless told otherwise); lru_cache keeps the one client, and with it
\* this cache, for the life of the process.
Lifespan == 300
NoJwkSet == [present |-> FALSE, at |-> 0]
JwkSetAt(t) == [present |-> TRUE, at |-> t]

\* JwkSetCacheGet with the cache switched off.
JwkSetCacheGet_Never(cache, now) == FALSE

\* jwk_set_cache.get(): whether a key set is cached and not yet expired.
JwkSetCacheGet(cache, now) == cache.present /\ ~(now > cache.at + Lifespan)

\* fetch_data(): the network fetch; its finally clause puts what it got
\* into the cache, and putting nothing clears the cache.
FetchData(now, net) ==
    IF net = "ok" THEN [err |-> "", cache |-> JwkSetAt(now)]
    ELSE [err |-> "PyJWKClientConnectionError", cache |-> NoJwkSet]

\* get_jwk_set(refresh): the cached key set, or a fetched one.
GetJwkSet(cache, now, net, refresh) ==
    IF ~refresh /\ JwkSetCacheGet(cache, now)
    THEN [err |-> "", cache |-> cache, fetches |-> 0]
    ELSE [err |-> FetchData(now, net).err, cache |-> FetchData(now, net).cache,
          fetches |-> 1]

\* get_signing_key(kid) as far as the key set goes: a kid that is not in
\* the set makes the client fetch the set again before it gives up.
\* fetch is whether the key set was at hand in the end.
JwksLookup(tok, cache, now, net) ==
    LET first == GetJwkSet(cache, now, net, FALSE)
        again == GetJwkSet(first.cache, now, net, TRUE)
    IN  IF first.err # ""
        THEN [fetch |-> "error", cache |-> first.cache, fetches |-> first.fetches]
        ELSE IF tok.kid \in PublishedKids
        THEN [fetch |-> "ok", cache |-> first.cache, fetches |-> first.fetches]
        ELSE [fetch |-> IF again.err = "" THEN "ok" ELSE "error",
              cache |-> again.cache,
              fetches |-> first.fetches + again.fetches]

\* jwks_client.get_signing_key_from_jwt(token): get the published key
\* set and look the token's key-id up in it.
GetSigningKeyFromJwt(tok, fetch) ==
    IF fetch # "ok" THEN [err |-> "PyJWKClientConnectionError", kid |-> Null]
    ELSE IF tok.kid \notin PublishedKids
         THEN [err |-> "PyJWKClientError", kid |-> Null]
    ELSE [err |-> "", kid |-> tok.kid]

\* alg.startswith("ES") or alg.startswith("RS") or alg.startswith("PS")
IsAsymmetricAlg(alg) == alg \in {"ES256", "RS256", "PS256"}

\* The key and the algorithms of a pyjwt.decode call; called = FALSE
\* when the key was not resolved and err was raised in place of the call.
DecodeWith(key, kty, algorithms) ==
    [called |-> TRUE, err |-> "", key |-> key, kty |-> kty,
     algorithms |-> algorithms]
NoDecode(err) ==
    [called |-> FALSE, err |-> err, key |-> Null, kty |-> Null,
     algorithms |-> {}]

\* DecodeArgs taking the asymmetric path for the ES algorithms alone.
DecodeArgs_SecretForRS(tok, fetch) ==
    IF tok.alg = "ES256"
    THEN LET sk == GetSigningKeyFromJwt(tok, fetch)
         IN  IF sk.err # "" THEN NoDecode(sk.err)
             ELSE DecodeWith(JwksKey(sk.kid).pair, JwksKey(sk.kid).kty, {tok.alg})
    ELSE DecodeWith(JWT_SECRET, "oct", SymmetricAlgs)

\* The branch of _decode_token on the header's alg: which key and which
\* algorithms it hands to pyjwt.decode.
DecodeArgs(tok, fetch) ==
    IF IsAsymmetricAlg(tok.alg)
    THEN LET sk == GetSigningKeyFromJwt(tok, fetch)
         IN  IF sk.err # "" THEN NoDecode(sk.err)
             ELSE DecodeWith(JwksKey(sk.kid).pair, JwksKey(sk.kid).kty, {tok.alg})
    ELSE DecodeWith(JWT_SECRET, "oct", SymmetricAlgs)

\* DecodeToken accepting HS256 alone on the symmetric path.
DecodeToken_OnlyHS256(tok, now, fetch) ==
    IF ~tok.wellformed THEN Raised("DecodeError")
    ELSE LET a == DecodeArgs(tok, fetch)
         IN  IF ~a.called THEN Raised(a.err)
             ELSE PyJwtDecode(tok, a.key, a.kty,
                              IF IsAsymmetricAlg(tok.alg) THEN a.algorithms
                              ELSE {"HS256"}, now)

\* _decode_token(token)
DecodeToken(tok, now, fetch) ==
    IF ~tok.wellformed THEN Raised("DecodeError")
    ELSE LET a == DecodeArgs(tok, fetch)
         IN  IF ~a.called THEN Raised(a.err)
             ELSE PyJwtDecode(tok, a.key, a.kty, a.algorithms, now)

\* What a request handler hands back: a value, an HTTPException with its
\* status and detail, or an exception nothing has caught ("raw": the
\* framework answers 500 Internal Server Error).
NoIdentity == [user_id |-> Null, email |-> Null]
TokenData(user_id, email) == [user_id |-> user_id, email |-> email]

VerifyOk(identity) ==
    [kind |-> "identity", status |-> 200, detail |-> "", identity |-> identity]
VerifyHTTPException(status, detail) ==
    [kind |-> "HTTPException", status |-> status, detail |-> detail,
     identity |-> NoIdentity]
VerifyRaw(name) ==
    [kind |-> "raw", status |-> 500, detail |-> name, identity |-> NoIdentity]
NoVerifyResult ==
    [kind |-> "none", status |-> 0, detail |-> "", identity |-> NoIdentity]

\* A bearer credential: absent (no Authorization header) or a token.
NoCredentials == [present |-> FALSE, token |-> NoToken]
Bearer(tok) == [present |-> TRUE, token |-> tok]

\* ExceptClauses with the clause for PyJWTError ahead of its subclasses'.
ExceptClauses_GenericFirst(err) ==
    IF err \in PyJWTErrors
    THEN VerifyHTTPException(HTTP_401_UNAUTHORIZED, "JWT validation failed: " \o err)
    ELSE VerifyRaw(err)

\* The except clauses of get_current_user, in their order.
ExceptClauses(err) ==
    IF err = "ExpiredSignatureError"
    THEN VerifyHTTPException(HTTP_401_UNAUTHORIZED, "Token has expired")
    ELSE IF err = "InvalidSignatureError"
    THEN VerifyHTTPException(HTTP_401_UNAUTHORIZED, "Invalid token signature")
    ELSE IF err \in PyJWTErrors
    THEN VerifyHTTPException(HTTP_401_UNAUTHORIZED, "JWT validation failed: " \o err)
    ELSE VerifyRaw(err)

\* IdentityOf reporting a missing subject with an exception that it
\* raises inside the try and that the last except clause re-categorises.
IdentityOf_MissingSubIsPyJWTError(payload) ==
    LET user_id == payload.sub
        email == payload.email
    IN  IF ~Truthy(user_id)
        THEN VerifyHTTPException(HTTP_401_UNAUTHORIZED,
                                 "JWT validation failed: MissingRequiredClaimError")
        ELSE IF UUID(user_id) = "ValueError" THEN VerifyRaw("ValueError")
        ELSE VerifyOk(TokenData(UUID(user_id), email))

\* The body of the try block once the payload is decoded.
IdentityOf(payload) ==
    LET user_id == payload.sub
        email == payload.email
    IN  IF ~Truthy(user_id)
        THEN VerifyHTTPException(HTTP_401_UNAUTHORIZED, "Token missing 'sub' claim")
        ELSE IF UUID(user_id) = "ValueError" THEN VerifyRaw("ValueError")
        ELSE VerifyOk(TokenData(UUID(user_id), email))

\* Whether get_current_user reaches the JWKS client with this credential.
AsksJwks(credentials) ==
    /\ credentials.present
    /\ credentials.token.wellformed
    /\ IsAsymmetricAlg(credentials.token.alg)

\* get_current_user(credentials)
GetCurrentUserResult(credentials, now, fetch) ==
    IF ~credentials.present
    THEN VerifyHTTPException(HTTP_401_UNAUTHORIZED, "Not authenticated")
    ELSE LET d == DecodeToken(credentials.token, now, fetch)
         IN  IF d.err # "" THEN ExceptClauses(d.err)
             ELSE IdentityOf(d.payload)

(* ------------------------------------------------------------------ *)
(* The outside world of login: identity provider and data store        *)
(* ------------------------------------------------------------------ *)

\* LoginRequest: email and password as the client sent them.
Passwords == {"right", "wrong"}
LoginRequests == [email : Emails, password : Passwords]
NoRequest == [email |-> Null, password |-> Null]

\* The user id the credential store holds for an email.
AccountId(email) == IF email = "a@x.com" THEN UUID1 ELSE UUID2

\* The user record of a provider response; present = FALSE is a body
\* without a "user" key. name and full_name are user_metadata's.
NoUserRecord ==
    [present |-> FALSE, id |-> Null, email |-> Null, name |-> Null,
     full_name |-> Null]
UserRecords(email) ==
    [present : {TRUE}, id : {AccountId(email)}, email : {email},
     name : {Null, "Ann"}, full_name : {Null, "Ann Lee"}]

\* The token the provider issues: asymmetric, signed with its published key.
ProviderToken(email, now) ==
    Token("ES256", "k1", "K1", AccountId(email), email, "authenticated",
          "authenticated", now, now + TokenTTL)

\* A response body: text that is no JSON, or a JSON object with some of
\* the keys access_token, user, msg, error_description.
NonJsonBody ==
    [json |-> FALSE, access_token |-> NoToken, user |-> NoUserRecord,
     msg |-> Null, error_description |-> Null]
GrantBodies(email, now) ==
    [json : {TRUE}, access_token : {NoToken, ProviderToken(email, now)},
     user : {NoUserRecord} \cup UserRecords(email),
     msg : {Null}, error_description : {Null}]
ErrorBodies ==
    [json : {TRUE}, access_token : {NoToken}, user : {NoUserRecord},
     msg : {Null, "Invalid login credentials"},
     error_description : {Null, "invalid_grant"}]

\* The status codes the provider answers the password grant with.
SuccessStatuses == {200}
OtherStatuses == {302, 400, 401, 500, 503}

\* What client.post(...) of login ends with: a response (status and
\* body), or an httpx.HTTPError (a network error, or the 10 s timeout).
\* The provider grants a token only for the right password.
NoResponse == [kind |-> "none", status |-> 0, body |-> NonJsonBody]
ProviderOutcomes(req, now) ==
    [kind : {"response"},
     status : IF req.password = "right" THEN SuccessStatuses ELSE {},
     body : {NonJsonBody} \cup GrantBodies(req.email, now)]
    \cup [kind : {"response"}, status : OtherStatuses,
          body : {NonJsonBody} \cup ErrorBodies]
    \cup [kind : {"network_error", "timeout"}, status : {0},
          body : {NonJsonBody}]

\* get_supabase(): the service-role client, or an exception when the
\* client cannot be obtained.
GetSupabaseOutcomes == {"client", "raises"}

\* What sb.rpc("verify_user_password", ...).execute() ends with: an
\* exception, or a result whose data holds no row or one row. The row of a
\* wrong password is not valid; a valid row carries id, email and name.
NoRow == [is_valid |-> FALSE, id |-> Null, email |-> Null, name |-> Null]
ValidRows(req) ==
    [is_valid : {TRUE}, id : {AccountId(req.email)}, email : {req.email},
     name : {Null, "", "Ann"}]
NoRpcResult == [kind |-> "none", data |-> << >>]
RpcOutcomes(req) ==
    {[kind |-> "exception", data |-> << >>], [kind |-> "result", data |-> << >>],
     [kind |-> "result", data |-> << NoRow >>]}
    \cup (IF req.password = "right"
          THEN {[kind |-> "result", data |-> << row >>] : row \in ValidRows(req)}
          ELSE {})

(* ------------------------------------------------------------------ *)
(* login: app/api/auth.py                                              *)
(* ------------------------------------------------------------------ *)

\* What login hands back: a LoginResponse, an HTTPException, or an
\* exception that nothing has caught.
NoUser == [id |-> Null, email |-> Null, name |-> Null]
LoginResponse(access_token, user) ==
    [kind |-> "success", status |-> 200, detail |-> "",
     access_token |-> access_token, user |-> user]
HTTPException(status, detail) ==
    [kind |-> "HTTPException", status |-> status, detail |-> detail,
     access_token |-> NoToken, user |-> NoUser]
RawException(name) ==
    [kind |-> "raw", status |-> 500, detail |-> name,
     access_token |-> NoToken, user |-> NoUser]
NoLoginResult ==
    [kind |-> "none", status |-> 0, detail |-> "",
     access_token |-> NoToken, user |-> NoUser]

\* GrantResponse with the user's id taken from the wrong field.
GrantResponse_IdFromEmail(data) ==
    IF ~data.json THEN RawException("JSONDecodeError")
    ELSE IF ~data.user.present \/ ~data.access_token.wellformed
    THEN RawException("KeyError")
    ELSE LoginResponse(
             data.access_token,
             [id |-> data.user.email, email |-> data.user.email,
              name |-> Or(data.user.name, Or(data.user.full_name, data.user.email))])

\* The branch of status 200: the response is built from the body's
\* access_token and user; a body that is no JSON or lacks one of them
\* raises (ValueError, KeyError), which no except clause of login catches.
GrantResponse(data) ==
    IF ~data.json THEN RawException("JSONDecodeError")
    ELSE IF ~data.user.present \/ ~data.access_token.wellformed
    THEN RawException("KeyError")
    ELSE LoginResponse(
             data.access_token,
             [id |-> data.user.id, email |-> data.user.email,
              name |-> Or(data.user.name, Or(data.user.full_name, data.user.email))])

\* The detail of a rejection: msg, else error_description, else the
\* default; the default also when the body is no JSON.
RejectionDetail(data) ==
    IF ~data.json THEN "Invalid email or password"
    ELSE Or(data.msg, Or(data.error_description, "Invalid email or password"))

\* Attempt 1 once client.post has ended. "fallback" as kind says that
\* control leaves the try statement and reaches Attempt 2.
FallThrough ==
    [kind |-> "fallback", status |-> 0, detail |-> "",
     access_token |-> NoToken, user |-> NoUser]
\* AttemptProvider surfacing only statuses below 400: a 4xx falls through.
AttemptProvider_RejectionFallsThrough(response) ==
    IF response.kind # "response" THEN FallThrough
    ELSE IF response.status = 200 THEN GrantResponse(response.body)
    ELSE IF response.status < 400
    THEN HTTPException(HTTP_401_UNAUTHORIZED, RejectionDetail(response.body))
    ELSE FallThrough

\* AttemptProvider surfacing every status but 200: a 5xx is a rejection.
AttemptProvider_ServerErrorIsRejection(response) ==
    IF response.kind # "response" THEN FallThrough
    ELSE IF response.status = 200 THEN GrantResponse(response.body)
    ELSE HTTPException(HTTP_401_UNAUTHORIZED, RejectionDetail(response.body))

AttemptProvider(response) ==
    IF response.kind # "response" THEN FallThrough
    ELSE IF response.status = 200 THEN GrantResponse(response.body)
    ELSE IF response.status < 500
    THEN HTTPException(HTTP_401_UNAUTHORIZED, RejectionDetail(response.body))
    ELSE FallThrough

\* LocalToken signed with a key that is not JWT_SECRET.
LocalToken_OtherSecret(user_id, email, now) ==
    Token("HS256", Null, OTHER_SECRET, user_id, email, "authenticated",
          "authenticated", now, now + TokenTTL)

\* LocalToken expiring at the moment it is issued.
LocalToken_ExpiresAtIssue(user_id, email, now) ==
    Token("HS256", Null, JWT_SECRET, user_id, email, "authenticated",
          "authenticated", now, now)

\* The token login issues itself: HS256 under JWT_SECRET, one hour.
LocalToken(user_id, email, now) ==
    Token("HS256", Null, JWT_SECRET, user_id, email, "authenticated",
          "authenticated", now, now + TokenTTL)

\* AttemptFallback looking only at whether a row came back, not at is_valid.
AttemptFallback_AnyRowIsValid(result, now) ==
    IF result.kind = "exception"
    THEN HTTPException(HTTP_503_SERVICE_UNAVAILABLE,
             "Auth service is unavailable and the fallback verify_user_password RPC function may not exist.")
    ELSE IF result.data = << >>
    THEN HTTPException(HTTP_401_UNAUTHORIZED, "Invalid email or password")
    ELSE LET row == result.data[1]
         IN  LoginResponse(LocalToken(row.id, row.email, now),
                           [id |-> row.id, email |-> row.email,
                            name |-> Or(row.name, LocalPart(row.email))])

\* AttemptFallback taking the stored name as it is, with no fallback to
\* the email.
AttemptFallback_StoredNameOnly(result, now) ==
    IF result.kind = "exception"
    THEN HTTPException(HTTP_503_SERVICE_UNAVAILABLE,
             "Auth service is unavailable and the fallback verify_user_password RPC function may not exist.")
    ELSE IF result.data = << >> \/ ~result.data[1].is_valid
    THEN HTTPException(HTTP_401_UNAUTHORIZED, "Invalid email or password")
    ELSE LET row == result.data[1]
         IN  LoginResponse(LocalToken(row.id, row.email, now),
                           [id |-> row.id, email |-> row.email,
                            name |-> row.name])

\* Attempt 2 once the RPC has ended.
AttemptFallback(result, now) ==
    IF result.kind = "exception"
    THEN HTTPException(HTTP_503_SERVICE_UNAVAILABLE,
             "Auth service is unavailable and the fallback verify_user_password RPC function may not exist.")
    ELSE IF result.data = << >> \/ ~result.data[1].is_valid
    THEN HTTPException(HTTP_401_UNAUTHORIZED, "Invalid email or password")
    ELSE LET row == result.data[1]
             user_id == row.id
             email == row.email
             name == Or(row.name, LocalPart(email))
         IN  LoginResponse(LocalToken(user_id, email, now),
                           [id |-> user_id, email |-> email, name |-> name])

(* ------------------------------------------------------------------ *)
(* The outside world of signup: the identity provider                  *)
(* ------------------------------------------------------------------ *)

\* SignupRequest: email, password and display_name as the client sent
\* them. The emails of Emails have an account already.
SignupEmails == {"a@x.com", "new@z.io"}
SignupRequests ==
    [email : SignupEmails, password : {"strong", "weak"},
     display_name : {Null, " Ann "}]
NoSignupRequest == [email |-> Null, password |-> Null, display_name |-> Null]
Registered(email) == email \in Emails

\* user_metadata as signup sends it: display_name and name, both the
\* stripped display name, when the request has one.
UserMetadata(req) ==
    IF Truthy(req.display_name)
    THEN [display_name |-> Strip(req.display_name),
          name |-> Strip(req.display_name), full_name |-> Null]
    ELSE [display_name |-> Null, name |-> Null, full_name |-> Null]

\* The user record of a signup response: the new user with the metadata
\* sent, none, or the provider's own; present = FALSE is a body without
\* a "user" key.
NoMetadata == [display_name |-> Null, name |-> Null, full_name |-> Null]
NoSignupUser ==
    [present |-> FALSE, id |-> Null, email |-> Null,
     user_metadata |-> NoMetadata, email_confirmed_at |-> Null]
SignupUsers(req) ==
    [present : {TRUE}, id : {UUID3}, email : {req.email},
     user_metadata : {UserMetadata(req), NoMetadata,
                      [NoMetadata EXCEPT !.full_name = "Ann Lee"]},
     email_confirmed_at : {Null, "2026-01-01T00:00:00Z"}]

\* The session of a signup response: none (the email is still to be
\* confirmed), one without access_token, or one with the provider's
\* token for the new user.
NoSession == [present |-> FALSE, access_token |-> NoToken]
SessionToken(user_id, email, now) ==
    Token("ES256", "k1", "K1", user_id, email, "authenticated",
          "authenticated", now, now + TokenTTL)
Sessions(req, now) ==
    {NoSession, [present |-> TRUE, access_token |-> NoToken],
     [present |-> TRUE, access_token |-> SessionToken(UUID3, req.email, now)]}

\* A response body of signup: text that is no JSON, or a JSON object with
\* some of the keys user, session, msg, error_description, message.
NonJsonSignupBody ==
    [json |-> FALSE, user |-> NoSignupUser, session |-> NoSession,
     msg |-> Null, error_description |-> Null, message |-> Null]
EmptySignupBody == [NonJsonSignupBody EXCEPT !.json = TRUE]
CreatedBodies(req, now) ==
    [json : {TRUE}, user : {NoSignupUser} \cup SignupUsers(req),
     session : Sessions(req, now),
     msg : {Null}, error_description : {Null}, message : {Null}]
MessageBodies(wordings) ==
    {[EmptySignupBody EXCEPT !.msg = w] : w \in wordings}
    \cup {[EmptySignupBody EXCEPT !.error_description = w] : w \in wordings}
    \cup {[EmptySignupBody EXCEPT !.message = w] : w \in wordings}

\* How the provider reports that the email has an account already, and
\* how it reports a password it finds too weak.
DuplicateReports ==
    [kind : {"response"}, status : {400, 409, 422},
     body : MessageBodies(DuplicateWordings)]
ValidationReports ==
    [kind : {"response"}, status : {400, 422},
     body : MessageBodies({WeakPasswordWording})]

\* What client.post(...) of signup ends with: a response, or an
\* exception (a network error, or the 10 s timeout). The provider creates
\* the user only for a new email and a password it accepts.
NoSignupResponse == [kind |-> "none", status |-> 0, body |-> NonJsonSignupBody]
SignupOutcomes(req, now) ==
    (IF Registered(req.email) THEN DuplicateReports
     ELSE IF req.password = "weak" THEN ValidationReports
     ELSE [kind : {"response"}, status : {200, 201},
           body : {NonJsonSignupBody} \cup CreatedBodies(req, now)])
    \cup [kind : {"response"}, status : {204, 302, 429, 500},
          body : {NonJsonSignupBody, EmptySignupBody}]
    \cup [kind : {"network_error", "timeout"}, status : {0},
          body : {NonJsonSignupBody}]

(* ------------------------------------------------------------------ *)
(* signup: app/api/auth.py                                             *)
(* ------------------------------------------------------------------ *)

\* The user of signup's LoginResponse has email_confirmed besides.
NoSignupResult ==
    [kind |-> "none", status |-> 0, detail |-> "",
     access_token |-> NoToken,
     user |-> [id |-> Null, email |-> Null, name |-> Null,
               email_confirmed |-> FALSE]]
SignupResponse(access_token, user) ==
    [NoSignupResult EXCEPT !.kind = "success", !.status = 200,
                           !.access_token = access_token, !.user = user]
SignupHTTPException(status, detail) ==
    [NoSignupResult EXCEPT !.kind = "HTTPException", !.status = status,
                           !.detail = detail]
SignupRaw(name) ==
    [NoSignupResult EXCEPT !.kind = "raw", !.status = 500, !.detail = name]

\* except Exception as e of signup
AuthServiceUnavailable(e) ==
    SignupHTTPException(HTTP_503_SERVICE_UNAVAILABLE,
                        "Auth service unavailable: " \o e)

\* SignupCreated putting the user's email into the sub of its own token.
SignupCreated_SubFromEmail(data, now) ==
    IF ~data.json THEN AuthServiceUnavailable("JSONDecodeError")
    ELSE IF ~data.user.present THEN AuthServiceUnavailable("KeyError")
    ELSE LET user == data.user
             session == data.session
             user_meta == user.user_metadata
             name == Or(user_meta.display_name,
                        Or(user_meta.name,
                           Or(user_meta.full_name, LocalPart(user.email))))
             access_token ==
                 IF session.present /\ session.access_token.wellformed
                 THEN session.access_token
                 ELSE LocalToken(user.email, user.email, now)
         IN  SignupResponse(access_token,
                 [id |-> user.id, email |-> user.email, name |-> name,
                  email_confirmed |-> user.email_confirmed_at # Null])

\* The branch of status 200 and 201: the response is built from the
\* body's user and session; a body that is no JSON or has no user raises
\* inside the try (ValueError, KeyError) and except Exception takes it.
SignupCreated(data, now) ==
    IF ~data.json THEN AuthServiceUnavailable("JSONDecodeError")
    ELSE IF ~data.user.present THEN AuthServiceUnavailable("KeyError")
    ELSE LET user == data.user
             session == data.session
             user_meta == user.user_metadata
             name == Or(user_meta.display_name,
                        Or(user_meta.name,
                           Or(user_meta.full_name, LocalPart(user.email))))
             access_token ==
                 IF session.present /\ session.access_token.wellformed
                 THEN session.access_token
                 ELSE LocalToken(user.id, user.email, now)
         IN  SignupResponse(access_token,
                 [id |-> user.id, email |-> user.email, name |-> name,
                  email_confirmed |-> user.email_confirmed_at # Null])

\* The detail of an error answer: msg, else error_description, else
\* message, else the default; the default also when the body is no JSON.
SignupErrorDetail(data) ==
    IF ~data.json THEN "Signup failed"
    ELSE Or(data.msg, Or(data.error_description,
                         Or(data.message, "Signup failed")))

\* The branch of the statuses from 400 on.
SignupRefused(response) ==
    LET detail == SignupErrorDetail(response.body)
    IN  IF response.status = 422 \/ ContainsAlreadyRegistered(Lower(detail))
        THEN SignupHTTPException(HTTP_409_CONFLICT, "Email already registered")
        ELSE SignupHTTPException(HTTP_400_BAD_REQUEST, detail)

\* signup once client.post has ended. A status that is neither 200 or 201
\* nor 400 or more leaves the function without a return value, which the
\* response model refuses.
SignupOutcome(response, now) ==
    IF response.kind # "response" THEN AuthServiceUnavailable(response.kind)
    ELSE IF response.status \in {200, 201}
    THEN SignupCreated(response.body, now)
    ELSE IF response.status >= 400 THEN SignupRefused(response)
    ELSE SignupRaw("ResponseValidationError")

(* ------------------------------------------------------------------ *)
(* verify-email, resend-verification, set-password, profile            *)
(* ------------------------------------------------------------------ *)

\* The handlers besides login and signup that call out.
ProviderFlows == {"verify_email", "resend_verification", "set_password"}

\* UpdateProfileRequest: name and display_name, each optional.
ProfileBodies == [name : {Null, " Ann "}, display_name : {Null, " Ann "}]
NoBody == [name |-> Null, display_name |-> Null]

\* What the provider call of a flow ends with: a response whose body is
\* no JSON or a JSON object with some of the keys error_description and
\* message, or an exception (a network error, or the 10 s timeout).
NonJsonAnswer == [json |-> FALSE, error_description |-> Null, message |-> Null]
Answers ==
    {NonJsonAnswer}
    \cup [json : {TRUE}, error_description : {Null, "Token has expired or is invalid"},
          message : {Null, "Not allowed"}]
NoCallOutcome == [kind |-> "none", status |-> 0, body |-> NonJsonAnswer]
CallOutcomes ==
    [kind : {"response"}, status : {200, 204, 400, 403, 422, 500}, body : Answers]
    \cup [kind : {"network_error", "timeout"}, status : {0}, body : {NonJsonAnswer}]

\* What the data store calls of update_profile end with: get_supabase()
\* raises; or no call is made, the body having no field; or the update
\* raises, or it updates a row, or it finds no row and the upsert
\* succeeds or raises.
StoreOutcomes(body) ==
    [kind : {"get_supabase_raises"}
            \cup (IF body.name = Null /\ body.display_name = Null
                  THEN {"not_called"}
                  ELSE {"update_raises", "updated", "upserted", "upsert_raises"}),
     status : {0}, body : {NonJsonAnswer}]

\* What a handler hands back: a dict, an HTTPException, or an exception
\* that nothing has caught.
NoHandlerResult == [kind |-> "none", status |-> 0, detail |-> ""]
Done(message) == [kind |-> "success", status |-> 200, detail |-> message]
Refused(status, detail) ==
    [kind |-> "HTTPException", status |-> status, detail |-> detail]
Uncaught(name) == [kind |-> "raw", status |-> 500, detail |-> name]

\* error_data.get("error_description") or error_data.get("message") or
\* the default; the default also when the body is no JSON.
ErrorDetail(data, default) ==
    IF ~data.json THEN default
    ELSE Or(data.error_description, Or(data.message, default))

\* VerifyEmailOutcome passing a server error of the provider on as 503.
VerifyEmailOutcome_ServerErrorIs503(response) ==
    IF response.kind # "response"
    THEN Refused(HTTP_503_SERVICE_UNAVAILABLE,
                 "Verification service unavailable: " \o response.kind)
    ELSE IF response.status = 200
    THEN IF response.body.json THEN Done("Email verified successfully")
         ELSE Refused(HTTP_503_SERVICE_UNAVAILABLE,
                      "Verification service unavailable: JSONDecodeError")
    ELSE IF response.status >= 500
    THEN Refused(HTTP_503_SERVICE_UNAVAILABLE, "Verification service unavailable")
    ELSE Refused(HTTP_400_BAD_REQUEST,
                 ErrorDetail(response.body, "Verification failed"))

\* verify_email once client.post has ended.
VerifyEmailOutcome(response) ==
    IF response.kind # "response"
    THEN Refused(HTTP_503_SERVICE_UNAVAILABLE,
                 "Verification service unavailable: " \o response.kind)
    ELSE IF response.status = 200
    THEN IF response.body.json THEN Done("Email verified successfully")
         ELSE Refused(HTTP_503_SERVICE_UNAVAILABLE,
                      "Verification service unavailable: JSONDecodeError")
    ELSE Refused(HTTP_400_BAD_REQUEST,
                 ErrorDetail(response.body, "Verification failed"))

\* resend_verification once client.post has ended.
ResendVerificationOutcome(response) ==
    IF response.kind # "response"
    THEN Refused(HTTP_503_SERVICE_UNAVAILABLE,
                 "Service unavailable: " \o response.kind)
    ELSE IF response.status = 200 THEN Done("Verification email sent")
    ELSE Refused(HTTP_400_BAD_REQUEST, "Failed to resend verification email")

\* set_password once client.put has ended.
SetPasswordOutcome(response) ==
    IF response.kind # "response"
    THEN Refused(HTTP_503_SERVICE_UNAVAILABLE,
                 "Service unavailable: " \o response.kind)
    ELSE IF response.status = 200 THEN Done("Password set successfully")
    ELSE Refused(HTTP_400_BAD_REQUEST,
                 ErrorDetail(response.body, "Failed to set password"))

\* The handler of a flow, once its call has ended.
FlowOutcome(flow, response) ==
    CASE flow = "verify_email" -> VerifyEmailOutcome(response)
      [] flow = "resend_verification" -> ResendVerificationOutcome(response)
      [] flow = "set_password" -> SetPasswordOutcome(response)

\* update_profile: get_supabase() is called ahead of everything; a body
\* without name and display_name is refused; a data store call that
\* raises is reported as an internal error.
UpdateProfileOutcome(body, store) ==
    IF store.kind = "get_supabase_raises" THEN Uncaught("get_supabase")
    ELSE IF body.name = Null /\ body.display_name = Null
    THEN Refused(HTTP_400_BAD_REQUEST, "No fields to update")
    ELSE IF store.kind \in {"update_raises", "upsert_raises"}
    THEN Refused(HTTP_500_INTERNAL_SERVER_ERROR,
                 "Failed to update profile: " \o store.kind)
    ELSE Done("Profile updated")

(* ------------------------------------------------------------------ *)
(* Dev logs and projects: app/core/database.py and the repositories    *)
(* ------------------------------------------------------------------ *)

\* A UUID as a Python value: its string, or the UUID object. The two are
\* not equal to each other, and only the string is a key of projects_db.
PyStr(hex) == [type |-> "str", hex |-> hex]
PyUUID(hex) == [type |-> "UUID", hex |-> hex]

\* Dates are day numbers (date.toordinal(), counted from the end of
\* January 2026). NoDate is a date parameter that was not given, Today is
\* date.today(), and a date's isoformat() is a string that orders as the
\* dates do.
NoDate == 0
Today == 26
IsoFormat(d) == [type |-> "str", day |-> d]

\* timedelta(days=7) of get_dashboard_stats, page_size=1000 of export_logs.
DefaultPeriodDays == 7
ExportPageSize == 1000

\* A row of logs_db; project is the key of the project dict that a read
\* has attached to it, if any. Title, content, tags and visibility are
\* left out: no handler decides by them here.
Log(id, user_id, project_id, log_date, created_at) ==
    [id |-> id, user_id |-> user_id, project_id |-> project_id,
     log_date |-> log_date, created_at |-> created_at, project |-> Null]
NoLog == Log(Null, Null, PyStr(Null), IsoFormat(NoDate), 0)

\* init_mock_data(): three projects and three logs of the mock user. The
\* ids are uuid4() values; created_at counts the logs in their order.
projects_db ==
    ("uuid-project1" :> [user_id |-> UUID1, name |-> "devlogs-api",
                         color |-> "#3B82F6"])
    @@ ("uuid-project2" :> [user_id |-> UUID1, name |-> "auth-service",
                            color |-> "#22C55E"])
    @@ ("uuid-project3" :> [user_id |-> UUID1, name |-> "dashboard-ui",
                            color |-> "#F59E0B"])
MockLogs ==
    ("uuid-log1" :> Log("uuid-log1", UUID1, PyStr("uuid-project2"),
                        IsoFormat(25), 3))
    @@ ("uuid-log2" :> Log("uuid-log2", UUID1, PyStr("uuid-project1"),
                           IsoFormat(24), 2))
    @@ ("uuid-log3" :> Log("uuid-log3", UUID1, PyStr("uuid-project3"),
                           IsoFormat(23), 1))

\* str(uuid4()) of a log that is created, an id not in use, and its
\* datetime.utcnow(), which is later than that of the mock logs.
NewLogId == "uuid-log4"
UtcNow == Cardinality(DOMAIN MockLogs) + 1

\* The table "projects" of the data store as the process finds it: one
\* project, of the second user.
SupabaseProject == "uuid-project4"
ProjectRows == {[id |-> SupabaseProject, user_id |-> UUID2]}

\* What the clients send: the users that get_current_user has identified,
\* project ids, log ids, dates, pages.
LogUsers == {UUID1, UUID2}
ProjectIds == {"uuid-project1", SupabaseProject}
TargetLogIds == {"uuid-log1", NewLogId}
LogDates == {24}
DateRanges == {<< NoDate, NoDate >>, << 24, 25 >>, << 25, 25 >>}
LogQueries ==
    [project_id : {Null}, range : {<< NoDate, NoDate >>}, page : {1, 2},
     page_size : {2}]
    \cup [project_id : ProjectIds, range : {<< NoDate, NoDate >>}, page : {1},
          page_size : {2}]
    \cup [project_id : {Null}, range : {<< 24, 24 >>}, page : {1},
          page_size : {2}]
LogUpdates ==
    [project_id : ProjectIds, log_date : {NoDate}]
    \cup [project_id : {Null}, log_date : LogDates]

\* project = projects_db.get(log["project_id"]); if project:
\* log["project"] = project
Attach(log) ==
    IF log.project_id.type = "str" /\ log.project_id.hex \in DOMAIN projects_db
    THEN [log EXCEPT !.project = log.project_id.hex]
    ELSE log

\* DevLogRepository.create
Repository_create(db, user_id, project_id, log_date) ==
    LET log == Log(NewLogId, user_id, PyStr(project_id),
                   IsoFormat(log_date), UtcNow)
    IN  [db |-> db @@ (log.id :> log), log |-> log]

\* get_by_id handing over the log of whatever user.
Repository_get_by_id_AnyOwner(db, log_id, user_id) ==
    IF log_id \in DOMAIN db
    THEN LET log == Attach(db[log_id])
         IN  [db |-> [db EXCEPT ![log_id] = log], log |-> log]
    ELSE [db |-> db, log |-> NoLog]

\* DevLogRepository.get_by_id: the log, with its project attached in
\* place, if it is there and is the user's.
Repository_get_by_id(db, log_id, user_id) ==
    IF log_id \in DOMAIN db /\ db[log_id].user_id = user_id
    THEN LET log == Attach(db[log_id])
         IN  [db |-> [db EXCEPT ![log_id] = log], log |-> log]
    ELSE [db |-> db, log |-> NoLog]

\* sort(key=(log_date, created_at), reverse=True) of the logs with the
\* given ids.
ComesBefore(a, b) ==
    \/ a.log_date.day > b.log_date.day
    \/ a.log_date.day = b.log_date.day /\ a.created_at > b.created_at
RECURSIVE SortLogs(_, _)
SortLogs(db, ids) ==
    IF ids = {} THEN << >>
    ELSE LET first == CHOOSE x \in ids :
                          \A y \in ids \ {x} : ComesBefore(db[x], db[y])
         IN  << first >> \o SortLogs(db, ids \ {first})

\* The filters of get_logs; tags and search are not given.
Matching(db, user_id, project_id, from_date, to_date) ==
    {id \in DOMAIN db :
        /\ db[id].user_id = user_id
        /\ project_id # Null => db[id].project_id = PyStr(project_id)
        /\ from_date # NoDate => db[id].log_date.day >= IsoFormat(from_date).day
        /\ to_date # NoDate => db[id].log_date.day <= IsoFormat(to_date).day}

\* user_logs[start_idx:end_idx]
Slice(s, start_idx, end_idx) ==
    IF start_idx >= Len(s) THEN << >>
    ELSE SubSeq(s, start_idx + 1, IF end_idx < Len(s) THEN end_idx ELSE Len(s))

\* get_logs with a slice that starts one log late.
Repository_get_logs_SkipsOne(db, user_id, project_id, from_date, to_date, page, page_size) ==
    LET user_logs == SortLogs(db, Matching(db, user_id, project_id,
                                           from_date, to_date))
        start_idx == (page - 1) * page_size + 1
        ids == Slice(user_logs, start_idx, start_idx + page_size)
        on_page == {ids[i] : i \in 1..Len(ids)}
        db2 == [id \in DOMAIN db |->
                   IF id \in on_page THEN Attach(db[id]) ELSE db[id]]
    IN  [db |-> db2, logs |-> [i \in 1..Len(ids) |-> db2[ids[i]]],
         total |-> Len(user_logs)]

\* DevLogRepository.get_logs: the user's logs that pass the filters,
\* sorted, the page cut out of them and the projects attached in place;
\* total counts them before the page is cut.
Repository_get_logs(db, user_id, project_id, from_date, to_date, page, page_size) ==
    LET user_logs == SortLogs(db, Matching(db, user_id, project_id,
                                           from_date, to_date))
        start_idx == (page - 1) * page_size
        ids == Slice(user_logs, start_idx, start_idx + page_size)
        on_page == {ids[i] : i \in 1..Len(ids)}
        db2 == [id \in DOMAIN db |->
                   IF id \in on_page THEN Attach(db[id]) ELSE db[id]]
    IN  [db |-> db2, logs |-> [i \in 1..Len(ids) |-> db2[ids[i]]],
         total |-> Len(user_logs)]

\* DevLogRepository.update with the fields of model_dump(exclude_unset=
\* True): a log_date is stored as its isoformat(), a project_id as the
\* UUID object it is.
Repository_update(db, log_id, user_id, kwargs) ==
    LET got == Repository_get_by_id(db, log_id, user_id)
    IN  IF got.log = NoLog THEN got
        ELSE LET log ==
                   [got.log EXCEPT
                      !.project_id = IF kwargs.project_id # Null
                                     THEN PyUUID(kwargs.project_id) ELSE @,
                      !.log_date = IF kwargs.log_date # NoDate
                                   THEN IsoFormat(kwargs.log_date) ELSE @]
             IN  [db |-> [got.db EXCEPT ![log_id] = log], log |-> log]

\* DevLogRepository.delete
Repository_delete(db, log_id, user_id) ==
    IF log_id \in DOMAIN db /\ db[log_id].user_id = user_id
    THEN [db |-> [id \in DOMAIN db \ {log_id} |-> db[id]], deleted |-> TRUE]
    ELSE [db |-> db, deleted |-> FALSE]

\* DevLogRepository.get_stats: the user's logs of the days from from_date
\* to to_date, both included. The hours are in the content, left out.
Repository_get_stats(db, user_id, from_date, to_date) ==
    LET user_logs ==
            {id \in DOMAIN db :
                /\ db[id].user_id = user_id
                /\ IsoFormat(from_date).day <= db[id].log_date.day
                /\ db[id].log_date.day <= IsoFormat(to_date).day}
    IN  [logs_count |-> Cardinality(user_logs),
         active_projects |-> Cardinality({db[id].project_id : id \in user_logs}),
         ids |-> user_logs]

\* The DevLogResponse that the service builds of a log; project_id is
\* parsed into a UUID from either form.
ProjectName(log) ==
    IF log.project = Null THEN Null ELSE projects_db[log.project].name
ProjectColor(log) ==
    IF log.project = Null THEN Null ELSE projects_db[log.project].color
DevLogResponse(log) ==
    [id |-> log.id, user_id |-> log.user_id, project_id |-> log.project_id.hex,
     log_date |-> log.log_date.day, created_at |-> log.created_at,
     project_name |-> ProjectName(log), project_color |-> ProjectColor(log)]

\* An entry of the export: id, date and the name of the project.
ExportItem(log) ==
    [id |-> log.id, date |-> log.log_date.day, project |-> ProjectName(log)]

\* has_more of DevLogList
HasMore(page, page_size, total) == page * page_size < total

\* What a handler of logs, stats or projects has answered last: the call,
\* its status, and the fields of its response.
NoReply ==
    [op |-> "none", user_id |-> Null, log_id |-> Null, project_id |-> Null,
     from_date |-> NoDate, to_date |-> NoDate, page |-> 0, page_size |-> 0,
     status |-> 0, items |-> << >>, total |-> 0, has_more |-> FALSE,
     prev_from |-> NoDate, prev_to |-> NoDate, logs_this_week |-> 0,
     logs_change |-> 0]

(* ------------------------------------------------------------------ *)
(* State                                                               *)
(* ------------------------------------------------------------------ *)

VARIABLES
    now,                 \* the clock, in seconds
    ticks,               \* how often the clock has advanced
    pc,                  \* where the request in progress stands
    body,                \* its LoginRequest
    response,            \* what client.post ended with
    sb,                  \* what get_supabase() ended with
    result,              \* what the RPC ended with
    providerCalls,       \* password-grant requests sent for this login
    fallbackCalls,       \* verify_user_password calls made for this login
    providerOutstanding, \* the password-grant request is in flight
    fallbackOutstanding, \* the RPC is in flight
    loginResult,         \* what login handed back
    issued,              \* the token the client got last
    signupBody,          \* the SignupRequest of the signup in progress
    signupResponse,      \* what its client.post ended with
    signupResult,        \* what signup handed back
    flow,                \* which other handler is in progress
    flowBody,            \* its UpdateProfileRequest, if it takes one
    flowOutcome,         \* what its call ended with
    flowResult,          \* what it handed back
    credentials,         \* the bearer credential of the last verification
    jwkSetCache,         \* the key set the JWKS client has cached
    fetched,             \* whether the key set was at hand for it, if asked
    fetches,             \* network fetches of the key set made for it
    decodeArgs,          \* the key and algorithms it was verified with
    verifyResult,        \* what get_current_user handed back for it
    loggedOut,           \* what the client held when it first called logout
    logs_db,             \* the dev logs, by id
    projects,            \* the rows of the table "projects"
    reply                \* what the handler of logs, stats or projects answered

loginLocals ==
    << body, response, sb, result, providerCalls, fallbackCalls,
       providerOutstanding, fallbackOutstanding, loginResult >>
loginVars == << pc, loginLocals >>
verifyVars == << credentials, fetched, fetches, decodeArgs, verifyResult >>
signupLocals == << signupBody, signupResponse, signupResult >>
flowLocals == << flow, flowBody, flowOutcome, flowResult >>
storeVars == << logs_db, projects, reply >>
vars ==
    << now, ticks, loginVars, issued, signupLocals, flowLocals, jwkSetCache,
       verifyVars, loggedOut, storeVars >>

\* What the client holds: the token, which path issued it, and the user
\* id that path reported.
NothingIssued == [token |-> NoToken, origin |-> "none", user_id |-> Null]

Init ==
    /\ now = StartTime
    /\ ticks = 0
    /\ pc = "idle"
    /\ body = NoRequest
    /\ response = NoResponse
    /\ sb = "none"
    /\ result = NoRpcResult
    /\ providerCalls = 0
    /\ fallbackCalls = 0
    /\ providerOutstanding = FALSE
    /\ fallbackOutstanding = FALSE
    /\ loginResult = NoLoginResult
    /\ issued = NothingIssued
    /\ signupBody = NoSignupRequest
    /\ signupResponse = NoSignupResponse
    /\ signupResult = NoSignupResult
    /\ flow = "none"
    /\ flowBody = NoBody
    /\ flowOutcome = NoCallOutcome
    /\ flowResult = NoHandlerResult
    /\ credentials = NoCredentials
    /\ jwkSetCache = NoJwkSet
    /\ fetched = "none"
    /\ fetches = 0
    /\ decodeArgs = NoDecode("")
    /\ verifyResult = NoVerifyResult
    /\ loggedOut = NothingIssued
    /\ logs_db = MockLogs
    /\ projects = ProjectRows
    /\ reply = NoReply

(* ------------------------------------------------------------------ *)
(* Actions                                                             *)
(* ------------------------------------------------------------------ *)

\* Time passes.
Tick ==
    /\ ticks < MaxTicks
    /\ pc # "verified"
    /\ \E d \in Jumps : now' = now + d
    /\ ticks' = ticks + 1
    /\ UNCHANGED << storeVars, loggedOut, loginVars, issued, signupLocals, flowLocals,
                    jwkSetCache, verifyVars >>

\* POST /login arrives: the handler sends the password grant and awaits.
LoginStart ==
    /\ pc = "idle"
    /\ \E req \in LoginRequests : body' = req
    /\ pc' = "ATTEMPT_PROVIDER"
    /\ providerCalls' = providerCalls + 1
    /\ providerOutstanding' = TRUE
    /\ UNCHANGED << storeVars, loggedOut, now, ticks, response, sb, result, fallbackCalls,
                    fallbackOutstanding, loginResult, issued, signupLocals, flowLocals,
                    jwkSetCache, verifyVars >>

\* client.post ends; the handler runs on to its return, its raise, or
\* the call of the RPC (after get_supabase(), which is outside the try).
ProviderRespond ==
    /\ pc = "ATTEMPT_PROVIDER"
    /\ \E r \in ProviderOutcomes(body, now) :
         LET a == AttemptProvider(r)
         IN  /\ response' = r
             /\ providerOutstanding' = FALSE
             /\ IF a.kind # "fallback"
                THEN /\ loginResult' = a
                     /\ pc' = "done"
                     /\ UNCHANGED << sb, fallbackCalls, fallbackOutstanding >>
                ELSE \E gs \in GetSupabaseOutcomes :
                       /\ sb' = gs
                       /\ IF gs = "raises"
                          THEN /\ loginResult' = RawException("SupabaseException")
                               /\ pc' = "done"
                               /\ UNCHANGED << fallbackCalls, fallbackOutstanding >>
                          ELSE /\ loginResult' = loginResult
                               /\ pc' = "ATTEMPT_FALLBACK"
                               /\ fallbackCalls' = fallbackCalls + 1
                               /\ fallbackOutstanding' = TRUE
    /\ UNCHANGED << storeVars, loggedOut, now, ticks, body, result, providerCalls, issued, signupLocals, flowLocals,
                    jwkSetCache, verifyVars >>

\* The RPC ends; the handler runs on to its return or its raise.
FallbackRespond ==
    /\ pc = "ATTEMPT_FALLBACK"
    /\ \E r \in RpcOutcomes(body) :
         /\ result' = r
         /\ loginResult' = AttemptFallback(r, now)
    /\ fallbackOutstanding' = FALSE
    /\ pc' = "done"
    /\ UNCHANGED << storeVars, loggedOut, now, ticks, body, response, sb, providerCalls, fallbackCalls,
                    providerOutstanding, issued, signupLocals, flowLocals,
                    jwkSetCache, verifyVars >>

\* The response reaches the client, which keeps the token of a success;
\* the request and its locals are gone.
LoginReturn ==
    /\ pc = "done"
    /\ issued' =
         IF loginResult.kind = "success"
         THEN [token |-> loginResult.access_token,
               origin |-> IF fallbackCalls > 0 THEN "fallback" ELSE "provider",
               user_id |-> IF fallbackCalls > 0 THEN result.data[1].id
                           ELSE response.body.user.id]
         ELSE issued
    /\ pc' = "idle"
    /\ body' = NoRequest
    /\ response' = NoResponse
    /\ sb' = "none"
    /\ result' = NoRpcResult
    /\ providerCalls' = 0
    /\ fallbackCalls' = 0
    /\ loginResult' = NoLoginResult
    /\ UNCHANGED << storeVars, loggedOut, now, ticks, providerOutstanding, fallbackOutstanding, signupLocals,
                    flowLocals, jwkSetCache, verifyVars >>

\* The tokens a client may present besides the one it was issued: every
\* header, signing key and claim set of the model, with exp around
\* now - Leeway or still ahead, and iat one lifetime before exp (never in
\* the future). A symmetric token has no key-id.
ExpOffsets == {0 - Leeway - 1, 0 - Leeway, 1 - Leeway, 2 * Leeway}
Headers ==
    [alg : {"HS256", "HS512", "none"}, kid : {Null}]
    \cup [alg : {"ES256", "RS256"}, kid : {"k1", "kX"}]
SigningKeys(alg) ==
    IF alg \in SymmetricAlgs THEN {JWT_SECRET, OTHER_SECRET}
    ELSE IF IsAsymmetricAlg(alg) THEN {"K1", "KX"}
    ELSE {Null}
Subjects == {UUID1, UUID2Upper, NotUUID, "", Null}
PresentedTokens(t) ==
    {NoToken} \cup
    { Token(h.alg, h.kid, k, sub, email, aud, "authenticated",
            t + off - TokenTTL, t + off) :
        h \in Headers, k \in {"K1", "KX", JWT_SECRET, OTHER_SECRET, Null},
        sub \in Subjects, email \in {Null, "a@x.com"},
        aud \in {Null, "authenticated"}, off \in ExpOffsets }

\* A request with a bearer credential arrives and get_current_user runs
\* (it awaits nothing). net is what the JWKS endpoint does if asked.
GetCurrentUserOf(tokens) ==
    /\ pc = "idle"
    /\ \E tok \in tokens, present \in BOOLEAN, net \in {"ok", "error"} :
         LET c == IF present THEN Bearer(tok) ELSE NoCredentials
             lk == IF AsksJwks(c) THEN JwksLookup(tok, jwkSetCache, now, net)
                   ELSE [fetch |-> "none", cache |-> jwkSetCache, fetches |-> 0]
         IN  /\ credentials' = c
             /\ jwkSetCache' = lk.cache
             /\ fetched' = lk.fetch
             /\ fetches' = lk.fetches
             /\ decodeArgs' = IF present /\ tok.wellformed
                              THEN DecodeArgs(tok, lk.fetch)
                              ELSE NoDecode("")
             /\ verifyResult' = GetCurrentUserResult(c, now, lk.fetch)
    /\ pc' = "verified"
    /\ UNCHANGED << storeVars, loggedOut, now, ticks, loginLocals, issued, signupLocals, flowLocals >>

\* The client presents the token it holds, or one made up.
GetCurrentUser ==
    GetCurrentUserOf({issued.token} \cup
        {tk \in PresentedTokens(now) : tk.sigkey \in SigningKeys(tk.alg)})

\* The client presents the token it holds.
PresentIssued ==
    /\ issued.origin # "none"
    /\ GetCurrentUserOf({issued.token})

\* The verified request is answered; the identity is discarded with it.
VerifyReturn ==
    /\ pc = "verified"
    /\ pc' = "idle"
    /\ credentials' = NoCredentials
    /\ fetched' = "none"
    /\ fetches' = 0
    /\ decodeArgs' = NoDecode("")
    /\ verifyResult' = NoVerifyResult
    /\ UNCHANGED << storeVars, loggedOut, now, ticks, loginLocals, issued, signupLocals, flowLocals,
                    jwkSetCache >>

\* POST /signup arrives: the handler sends the signup and awaits.
SignupStart ==
    /\ pc = "idle"
    /\ \E req \in SignupRequests : signupBody' = req
    /\ pc' = "SIGNUP"
    /\ UNCHANGED << storeVars, loggedOut, now, ticks, loginLocals, issued, signupResponse,
                    signupResult, flowLocals, jwkSetCache, verifyVars >>

\* client.post ends; the handler runs on to its return or its raise.
SignupRespond ==
    /\ pc = "SIGNUP"
    /\ \E r \in SignupOutcomes(signupBody, now) :
         /\ signupResponse' = r
         /\ signupResult' = SignupOutcome(r, now)
    /\ pc' = "signup_done"
    /\ UNCHANGED << storeVars, loggedOut, now, ticks, loginLocals, issued, signupBody, flowLocals,
                    jwkSetCache, verifyVars >>

\* The response reaches the client, which keeps the token of a success.
SignupReturn ==
    /\ pc = "signup_done"
    /\ issued' = IF signupResult.kind = "success"
                 THEN [token |-> signupResult.access_token, origin |-> "signup",
                       user_id |-> signupResult.user.id]
                 ELSE issued
    /\ signupBody' = NoSignupRequest
    /\ signupResponse' = NoSignupResponse
    /\ signupResult' = NoSignupResult
    /\ pc' = "idle"
    /\ UNCHANGED << storeVars, loggedOut, now, ticks, loginLocals, flowLocals, jwkSetCache, verifyVars >>

\* POST /verify-email or /resend-verification arrives: the handler sends
\* its request to the provider and awaits.
VerifyEmailStart ==
    /\ pc = "idle"
    /\ flow' = "verify_email"
    /\ pc' = "FLOW"
    /\ UNCHANGED << storeVars, loggedOut, now, ticks, loginLocals, issued, signupLocals, flowBody,
                    flowOutcome, flowResult, jwkSetCache, verifyVars >>

ResendVerificationStart ==
    /\ pc = "idle"
    /\ flow' = "resend_verification"
    /\ pc' = "FLOW"
    /\ UNCHANGED << storeVars, loggedOut, now, ticks, loginLocals, issued, signupLocals, flowBody,
                    flowOutcome, flowResult, jwkSetCache, verifyVars >>

\* POST /set-password: get_current_user has handed an identity over, the
\* handler sends its request to the provider and awaits.
SetPasswordStart ==
    /\ pc = "verified"
    /\ verifyResult.kind = "identity"
    /\ flow' = "set_password"
    /\ pc' = "FLOW"
    /\ UNCHANGED << storeVars, loggedOut, now, ticks, loginLocals, issued, signupLocals, flowBody,
                    flowOutcome, flowResult, jwkSetCache, verifyVars >>

\* The provider call of the flow ends; the handler runs on to its return
\* or its raise.
FlowRespond ==
    /\ pc = "FLOW"
    /\ \E r \in CallOutcomes :
         /\ flowOutcome' = r
         /\ flowResult' = FlowOutcome(flow, r)
    /\ pc' = "flow_done"
    /\ UNCHANGED << storeVars, loggedOut, now, ticks, loginLocals, issued, signupLocals, flow,
                    flowBody, jwkSetCache, verifyVars >>

\* PATCH /profile: get_current_user has handed an identity over and
\* update_profile runs (it awaits nothing).
UpdateProfile ==
    /\ pc = "verified"
    /\ verifyResult.kind = "identity"
    /\ \E b \in ProfileBodies : \E st \in StoreOutcomes(b) :
         /\ flowBody' = b
         /\ flowOutcome' = st
         /\ flowResult' = UpdateProfileOutcome(b, st)
    /\ flow' = "update_profile"
    /\ pc' = "flow_done"
    /\ UNCHANGED << storeVars, loggedOut, now, ticks, loginLocals, issued, signupLocals, jwkSetCache,
                    verifyVars >>

\* The response of the flow reaches the client; the request, its locals
\* and its identity are gone.
FlowReturn ==
    /\ pc = "flow_done"
    /\ flow' = "none"
    /\ flowBody' = NoBody
    /\ flowOutcome' = NoCallOutcome
    /\ flowResult' = NoHandlerResult
    /\ credentials' = NoCredentials
    /\ fetched' = "none"
    /\ fetches' = 0
    /\ decodeArgs' = NoDecode("")
    /\ verifyResult' = NoVerifyResult
    /\ pc' = "idle"
    /\ UNCHANGED << storeVars, loggedOut, now, ticks, loginLocals, issued, signupLocals, jwkSetCache >>

\* Time passes between two requests of the sessions.
SessionTick ==
    /\ ticks < MaxSessionTicks
    /\ pc = "idle"
    /\ Tick

\* Logout answering after it has dropped the key set the server holds.
Logout_DropsKeySet ==
    /\ pc = "idle"
    /\ issued.origin # "none"
    /\ loggedOut' = IF loggedOut.origin = "none" THEN issued ELSE loggedOut
    /\ jwkSetCache' = NoJwkSet
    /\ UNCHANGED << storeVars, now, ticks, loginVars, issued, signupLocals, flowLocals,
                    verifyVars >>

\* POST /logout: the handler answers "Logged out successfully" and does
\* nothing else; it takes no credential. The client that calls it holds a
\* token; loggedOut remembers the one of the first call.
Logout ==
    /\ pc = "idle"
    /\ issued.origin # "none"
    /\ loggedOut' = IF loggedOut.origin = "none" THEN issued ELSE loggedOut
    /\ UNCHANGED << storeVars, now, ticks, loginVars, issued, signupLocals, flowLocals,
                    jwkSetCache, verifyVars >>

\* The token of a session that was logged out is presented again.
PresentLoggedOut ==
    /\ loggedOut.origin # "none"
    /\ GetCurrentUserOf({loggedOut.token})

\* All that the handlers of logs, stats and projects leave alone.
authVars ==
    << now, ticks, loginVars, issued, signupLocals, flowLocals, jwkSetCache,
       verifyVars, loggedOut >>

\* POST /logs: create_log stores the log of the caller under a new id,
\* whatever project it names, and answers 201 with it.
CreateLog ==
    /\ NewLogId \notin DOMAIN logs_db
    /\ \E user_id \in LogUsers, project_id \in ProjectIds, log_date \in LogDates :
         LET made == Repository_create(logs_db, user_id, project_id, log_date)
         IN  /\ logs_db' = made.db
             /\ reply' = [NoReply EXCEPT
                            !.op = "create_log", !.user_id = user_id,
                            !.log_id = made.log.id, !.status = 201,
                            !.items = << DevLogResponse(made.log) >>]
    /\ UNCHANGED << authVars, projects >>

\* GET /logs/{log_id}: the log, or 404 "Log not found".
GetLog ==
    /\ \E user_id \in LogUsers, log_id \in TargetLogIds :
         LET got == Repository_get_by_id(logs_db, log_id, user_id)
         IN  /\ logs_db' = got.db
             /\ reply' = [NoReply EXCEPT
                            !.op = "get_log", !.user_id = user_id,
                            !.log_id = log_id,
                            !.status = IF got.log = NoLog THEN HTTP_404_NOT_FOUND ELSE 200,
                            !.items = IF got.log = NoLog THEN << >>
                                      ELSE << DevLogResponse(got.log) >>]
    /\ UNCHANGED << authVars, projects >>

\* GET /logs: a page of the caller's logs that pass the filters.
GetLogs ==
    /\ \E user_id \in LogUsers, q \in LogQueries :
         LET project_id == q.project_id
             range == q.range
             page == q.page
             page_size == q.page_size
             got == Repository_get_logs(logs_db, user_id, project_id,
                                        range[1], range[2], page, page_size)
         IN  /\ logs_db' = got.db
             /\ reply' = [NoReply EXCEPT
                            !.op = "get_logs", !.user_id = user_id,
                            !.project_id = project_id,
                            !.from_date = range[1], !.to_date = range[2],
                            !.page = page, !.page_size = page_size,
                            !.status = 200,
                            !.items = [i \in 1..Len(got.logs) |->
                                          DevLogResponse(got.logs[i])],
                            !.total = got.total,
                            !.has_more = HasMore(page, page_size, got.total)]
    /\ UNCHANGED << authVars, projects >>

\* GET /logs/export: the first page of ExportPageSize logs, as entries.
ExportLogs ==
    /\ \E user_id \in LogUsers, project_id \in {Null} \cup ProjectIds :
         LET got == Repository_get_logs(logs_db, user_id, project_id,
                                        NoDate, NoDate, 1, ExportPageSize)
         IN  /\ logs_db' = got.db
             /\ reply' = [NoReply EXCEPT
                            !.op = "export_logs", !.user_id = user_id,
                            !.project_id = project_id, !.status = 200,
                            !.items = [i \in 1..Len(got.logs) |->
                                          ExportItem(got.logs[i])]]
    /\ UNCHANGED << authVars, projects >>

\* PATCH /logs/{log_id}: the fields given are written to the caller's
\* log; 404 "Log not found" if it is not there or not the caller's.
UpdateLog ==
    /\ \E user_id \in LogUsers, log_id \in TargetLogIds,
          data \in LogUpdates :
         LET got == Repository_update(logs_db, log_id, user_id, data)
         IN  /\ logs_db' = got.db
             /\ reply' = [NoReply EXCEPT
                            !.op = "update_log", !.user_id = user_id,
                            !.log_id = log_id, !.project_id = data.project_id,
                            !.from_date = data.log_date,
                            !.status = IF got.log = NoLog THEN HTTP_404_NOT_FOUND ELSE 200,
                            !.items = IF got.log = NoLog THEN << >>
                                      ELSE << DevLogResponse(got.log) >>]
    /\ UNCHANGED << authVars, projects >>

\* DELETE /logs/{log_id}: 204, or 404 "Log not found".
DeleteLog ==
    /\ \E user_id \in LogUsers, log_id \in TargetLogIds :
         LET got == Repository_delete(logs_db, log_id, user_id)
         IN  /\ logs_db' = got.db
             /\ reply' = [NoReply EXCEPT
                            !.op = "delete_log", !.user_id = user_id,
                            !.log_id = log_id,
                            !.status = IF got.deleted THEN 204 ELSE HTTP_404_NOT_FOUND]
    /\ UNCHANGED << authVars, projects >>

\* GET /stats/dashboard: the counts of the period from from_date to
\* to_date and of the period that the service puts before it.
GetDashboardStats ==
    /\ \E user_id \in LogUsers, range \in DateRanges :
         LET to_date == IF range[2] = NoDate THEN Today ELSE range[2]
             from_date == IF range[1] = NoDate
                          THEN to_date - DefaultPeriodDays ELSE range[1]
             current_stats == Repository_get_stats(logs_db, user_id,
                                                   from_date, to_date)
             period_length == to_date - from_date
             prev_from == from_date - period_length
             prev_to == from_date - 1
             prev_stats == Repository_get_stats(logs_db, user_id,
                                                prev_from, prev_to)
         IN  reply' = [NoReply EXCEPT
                         !.op = "get_dashboard_stats", !.user_id = user_id,
                         !.from_date = from_date, !.to_date = to_date,
                         !.prev_from = prev_from, !.prev_to = prev_to,
                         !.status = 200,
                         !.total = current_stats.active_projects,
                         !.logs_this_week = current_stats.logs_count,
                         !.logs_change = current_stats.logs_count
                                             - prev_stats.logs_count]
    /\ UNCHANGED << authVars, logs_db, projects >>

\* DELETE /projects/{project_id}: the caller's row of that id leaves the
\* table "projects"; 204 if there was one, else 404 "Project not found".
\* logs_db is not touched.
DeleteProject ==
    /\ \E user_id \in LogUsers, project_id \in ProjectIds :
         LET data == {row \in projects :
                         row.id = project_id /\ row.user_id = user_id}
         IN  /\ projects' = projects \ data
             /\ reply' = [NoReply EXCEPT
                            !.op = "delete_project", !.user_id = user_id,
                            !.project_id = project_id,
                            !.status = IF Cardinality(data) > 0 THEN 204
                                       ELSE HTTP_404_NOT_FOUND]
    /\ UNCHANGED << authVars, logs_db >>

Next ==
    \/ Tick
    \/ LoginStart
    \/ ProviderRespond
    \/ FallbackRespond
    \/ LoginReturn
    \/ GetCurrentUser
    \/ VerifyReturn

Spec == Init /\ [][Next]_vars

\* signup, the flows around the account, and the client presenting the
\* token it was given.
AccountNext ==
    \/ Tick
    \/ SignupStart
    \/ SignupRespond
    \/ SignupReturn
    \/ PresentIssued
    \/ VerifyReturn
    \/ VerifyEmailStart
    \/ ResendVerificationStart
    \/ SetPasswordStart
    \/ FlowRespond
    \/ UpdateProfile
    \/ FlowReturn

AccountSpec == Init /\ [][AccountNext]_vars

\* Sessions from their start to their end: login, signup, logout, and the
\* client presenting the token of a session, logged out or not.
SessionNext ==
    \/ SessionTick
    \/ LoginStart
    \/ ProviderRespond
    \/ FallbackRespond
    \/ LoginReturn
    \/ SignupStart
    \/ SignupRespond
    \/ SignupReturn
    \/ Logout
    \/ PresentIssued
    \/ PresentLoggedOut
    \/ VerifyReturn

SessionSpec == Init /\ [][SessionNext]_vars

\* The dev logs, their statistics and the projects.
LogNext ==
    \/ CreateLog
    \/ GetLog
    \/ GetLogs
    \/ ExportLogs
    \/ UpdateLog
    \/ DeleteLog
    \/ GetDashboardStats
    \/ DeleteProject

LogSpec == Init /\ [][LogNext]_vars

(* ------------------------------------------------------------------ *)
(* Properties of login                                                 *)
(* ------------------------------------------------------------------ *)

\* How the provider attempt of the request in progress has ended.
ProviderRejected ==
    response.kind = "response" /\ response.status >= 400 /\ response.status < 500
ProviderGranted == response.kind = "response" /\ response.status = 200
ProviderUnavailable ==
    \/ response.kind = "response" /\ response.status >= 500
    \/ response.kind \in {"network_error", "timeout"}

InvalidCredentials ==
    loginResult.kind = "HTTPException" /\ loginResult.status = 401
ServiceUnavailable ==
    loginResult.kind = "HTTPException" /\ loginResult.status = 503

\* C1: once the provider has answered the password grant with a 4xx, the
\* request has ended as invalid-credentials (401) and the verification RPC
\* has not been and is not being called for it (the client is not even
\* obtained).
C1_RejectionIsTerminal ==
    ProviderRejected =>
        /\ pc = "done"
        /\ InvalidCredentials
        /\ loginResult.access_token = NoToken
        /\ fallbackCalls = 0 /\ ~fallbackOutstanding
        /\ sb = "none" /\ result = NoRpcResult

C1_Witness ==
    ProviderRejected /\ pc = "done" /\ response.status = 401 /\ body.password = "wrong"

\* C2: when the provider answers 200 the request ends at once and the RPC
\* is called zero times; with the access token and the user record in the
\* body, it ends as a success carrying exactly that token and that user's
\* id and email.
C2_GrantIsTerminal ==
    ProviderGranted =>
        /\ pc = "done"
        /\ fallbackCalls = 0 /\ ~fallbackOutstanding
        /\ sb = "none" /\ result = NoRpcResult
        /\ (response.body.json /\ response.body.user.present
            /\ response.body.access_token.wellformed) =>
               /\ loginResult.kind = "success"
               /\ loginResult.access_token = response.body.access_token
               /\ loginResult.user.id = response.body.user.id
               /\ loginResult.user.email = response.body.user.email

C2_Witness ==
    /\ ProviderGranted /\ pc = "done"
    /\ loginResult.kind = "success"
    /\ loginResult.access_token.alg = "ES256"
    /\ loginResult.user.id = UUID1

RpcValid ==
    result.kind = "result" /\ result.data # << >> /\ result.data[1].is_valid
\* It has reported no row, or a row that is not valid.
RpcInvalid ==
    result.kind = "result" /\ (result.data = << >> \/ ~result.data[1].is_valid)

\* C4: with the provider unavailable and a valid row from the RPC, login
\* succeeds with a token of its own; and whenever the token of such a login
\* is presented to get_current_user before its expiry, the result is an
\* identity whose user_id is the id the RPC returned.
C4_FallbackTokenVerifies ==
    /\ (pc = "done" /\ ProviderUnavailable /\ RpcValid) =>
           /\ loginResult.kind = "success"
           /\ loginResult.access_token.wellformed
           /\ loginResult.access_token.sub = result.data[1].id
           /\ loginResult.user.id = result.data[1].id
    /\ (pc = "verified" /\ issued.origin = "fallback"
        /\ credentials = Bearer(issued.token) /\ now < issued.token.exp) =>
           /\ verifyResult.kind = "identity"
           /\ verifyResult.identity.user_id = issued.user_id

C4_Witness ==
    /\ pc = "verified" /\ issued.origin = "fallback"
    /\ credentials = Bearer(issued.token)
    /\ now = issued.token.exp - 1
    /\ verifyResult.kind = "identity"
    /\ verifyResult.identity.user_id = UUID2

\* C5: when the RPC has returned no row, or a row whose is_valid is false,
\* login has failed with invalid-credentials (401) and carries no token.
C5_InvalidRowIsRejected ==
    RpcInvalid =>
        /\ pc = "done"
        /\ InvalidCredentials
        /\ loginResult.access_token = NoToken

C5_Witness ==
    /\ pc = "done" /\ result.kind = "result"
    /\ result.data # << >> /\ ~result.data[1].is_valid
    /\ InvalidCredentials

\* C6 as claimed: when the data-store call fails (the RPC raises, or the
\* client cannot be obtained), login fails with service-unavailable (503)
\* with a detail, and no token is issued.
C6_DataStoreFailureIs503 ==
    (pc = "done" /\ (result.kind = "exception" \/ sb = "raises")) =>
        /\ ServiceUnavailable
        /\ loginResult.detail # ""
        /\ loginResult.access_token = NoToken

\* C7 as claimed: a login request ends in exactly one of success,
\* invalid-credentials (401) and service-unavailable (503), whatever the
\* provider and the RPC do.
C7_LoginEndsCategorised ==
    pc = "done" =>
        \/ loginResult.kind = "success"
        \/ InvalidCredentials
        \/ ServiceUnavailable

(* ------------------------------------------------------------------ *)
(* Properties of the token verifier                                    *)
(* ------------------------------------------------------------------ *)

\* The token of the verification just made.
Presented == credentials.token
Verified == pc = "verified" /\ credentials.present /\ Presented.wellformed

\* Two strings that write the same UUID.
SameUUID(a, b) == a = b \/ {a, b} = {UUID2, UUID2Upper}

\* The subject is there and writes a UUID (the token's data invariant).
SubjectIsIdentifier(tok) == tok.sub \in {UUID1, UUID2, UUID2Upper}

\* Signed with the shared secret, under one of the HS algorithms.
SymmetricSigned(tok) == tok.alg \in {"HS256", "HS384", "HS512"}
\* Signed under an asymmetric algorithm, naming a published key of that
\* algorithm's type, which the verifier has got hold of.
AsymmetricResolved(tok) ==
    /\ tok.alg \in {"ES256", "RS256", "PS256"}
    /\ fetched = "ok"
    /\ tok.kid = "k1"
    /\ tok.alg = "ES256"

CorrectlySigned(tok) ==
    \/ SymmetricSigned(tok) /\ tok.sigkey = JWT_SECRET
    \/ AsymmetricResolved(tok) /\ tok.sigkey = "K1"

Failed401(detail) ==
    /\ verifyResult.kind = "HTTPException"
    /\ verifyResult.status = 401
    /\ verifyResult.detail = detail

\* C8: for a correctly signed token that has not expired and whose subject
\* is an identifier - symmetric and verified with the shared secret, or
\* asymmetric and verified with the published key - get_current_user
\* returns an identity whose user_id is the UUID of the sub claim and whose
\* email is the email claim, None when there is none.
C8_ValidTokenYieldsIdentity ==
    (Verified /\ CorrectlySigned(Presented) /\ Presented.exp > now
     /\ SubjectIsIdentifier(Presented)) =>
        /\ verifyResult.kind = "identity"
        /\ SameUUID(verifyResult.identity.user_id, Presented.sub)
        /\ verifyResult.identity.user_id \in UserIds
        /\ verifyResult.identity.email = Presented.email

C8_Witness ==
    /\ Verified /\ verifyResult.kind = "identity"
    /\ Presented.alg = "ES256" /\ Presented.exp > now
    /\ Presented.sub = UUID2Upper /\ verifyResult.identity.user_id = UUID2
    /\ Presented.email = Null /\ verifyResult.identity.email = Null

\* C9 as claimed: every token whose exp is more than the skew tolerance in
\* the past fails with 'Token has expired', whatever its signature.
C9_ExpiredWhateverSignature ==
    (Verified /\ Presented.exp < now - Leeway) => Failed401("Token has expired")

\* C9, amended: every correctly signed token whose exp is more than the
\* skew tolerance in the past fails with 'Token has expired', whatever its
\* claims; the signature is verified before the expiry is looked at.
C9_ExpiredWhenSigned ==
    (Verified /\ CorrectlySigned(Presented) /\ Presented.exp < now - Leeway) =>
        Failed401("Token has expired")

C9_Witness ==
    /\ Verified /\ Failed401("Token has expired")
    /\ Presented.alg = "HS512" /\ Presented.exp = now - Leeway - 1
    /\ Presented.sub = Null

\* Signed with a key other than the one configured or published.
SignedWithOtherSecret(tok) == SymmetricSigned(tok) /\ tok.sigkey # JWT_SECRET
SignedWithOtherKey(tok) ==
    tok.alg \in {"ES256", "RS256", "PS256"} /\ tok.sigkey # "K1"

\* C10 as claimed: every token signed with a key other than the shared
\* secret or the published key, a key-id outside the published set
\* included, fails with 'Invalid token signature' (stated for the tokens
\* whose algorithm is that of the published key, and with the key set
\* fetched).
C10_OtherKeyIsBadSignature ==
    (Verified /\ (\/ SignedWithOtherSecret(Presented)
                  \/ /\ SignedWithOtherKey(Presented)
                     /\ Presented.alg = "ES256" /\ fetched = "ok")) =>
        Failed401("Invalid token signature")

\* C10, amended: a symmetric token signed with another secret, and an
\* asymmetric token whose key-id names a published key of its algorithm's
\* type but which another key signed, fail with 'Invalid token signature',
\* expired or not; a token signed with another key whose key-id is not in
\* the published set fails with the generic 'JWT validation failed' (no
\* signing key is found for it); none of these tokens ever yields an
\* identity.
C10_OtherKeyNeverVerifies ==
    /\ (Verified /\ SignedWithOtherSecret(Presented)) =>
           Failed401("Invalid token signature")
    /\ (Verified /\ AsymmetricResolved(Presented) /\ Presented.sigkey # "K1") =>
           Failed401("Invalid token signature")
    /\ (Verified /\ SignedWithOtherKey(Presented) /\ fetched = "ok"
        /\ Presented.kid # "k1") =>
           Failed401("JWT validation failed: PyJWKClientError")
    /\ (Verified /\ (SignedWithOtherSecret(Presented) \/ SignedWithOtherKey(Presented))) =>
           verifyResult.kind # "identity"

C10_Witness ==
    /\ Verified /\ Failed401("Invalid token signature")
    /\ Presented.alg = "ES256" /\ Presented.kid = "k1" /\ Presented.sigkey = "KX"
    /\ Presented.exp < now - Leeway

\* The token's exp is not yet the skew tolerance in the past.
WithinValidity(tok) == tok.exp > now - Leeway

\* C11: a correctly signed token within its validity that has no sub claim,
\* or an empty one, fails with 401 'Token missing 'sub' claim' and yields
\* no identity: the HTTPException passes the except clauses unchanged.
C11_MissingSubIsMalformedClaims ==
    (Verified /\ CorrectlySigned(Presented) /\ WithinValidity(Presented)
     /\ Presented.sub \in {Null, ""}) =>
        /\ Failed401("Token missing 'sub' claim")
        /\ verifyResult.identity = NoIdentity

C11_Witness ==
    /\ Verified /\ Failed401("Token missing 'sub' claim")
    /\ Presented.alg = "ES256" /\ Presented.sub = ""

\* C12 as claimed: a correctly signed token within its validity whose sub
\* is there but writes no UUID fails as unauthenticated (401), like a
\* missing subject.
C12_BadSubIsMalformedClaims ==
    (Verified /\ CorrectlySigned(Presented) /\ WithinValidity(Presented)
     /\ Presented.sub = NotUUID) =>
        /\ verifyResult.kind = "HTTPException"
        /\ verifyResult.status = HTTP_401_UNAUTHORIZED

\* C13: the key a token is verified with is of the family its header
\* declares. A token that declares ES256, RS256 or PS256 is verified, if
\* at all, with the published key of its kid and with that algorithm
\* alone; every other token with the shared secret and HS256, HS384 and
\* HS512; and a token that yields an identity declares one of these.
C13_KeyMatchesAlgFamily ==
    Verified =>
        /\ (IsAsymmetricAlg(Presented.alg) /\ decodeArgs.called) =>
               /\ Presented.kid \in PublishedKids
               /\ decodeArgs.key = JwksKey(Presented.kid).pair
               /\ decodeArgs.key # JWT_SECRET
               /\ decodeArgs.algorithms = {Presented.alg}
        /\ ~IsAsymmetricAlg(Presented.alg) =>
               /\ decodeArgs.called
               /\ decodeArgs.key = JWT_SECRET
               /\ decodeArgs.algorithms = {"HS256", "HS384", "HS512"}
        /\ verifyResult.kind = "identity" =>
               Presented.alg \in {"ES256", "RS256", "PS256",
                                  "HS256", "HS384", "HS512"}

\* A token declaring alg none reached the decode call and was refused.
C13_Witness ==
    /\ Verified /\ Presented.alg = "none" /\ decodeArgs.called
    /\ decodeArgs.key = JWT_SECRET
    /\ Failed401("JWT validation failed: InvalidAlgorithmError")

\* The audiences a token may carry; Null is a token without aud.
Audiences == {Null, "authenticated", "anon"}

\* The presented token with another audience, all else (signature
\* included) alike.
WithAudience(tok, aud) == [tok EXCEPT !.aud = aud]

\* C14: what get_current_user hands back does not depend on the aud claim:
\* the same token with any other audience, or none, verified at the same
\* time with the same key set, ends with the same identity or failure.
C14_AudienceIsIgnored ==
    Verified =>
        \A aud \in Audiences :
            GetCurrentUserResult(Bearer(WithAudience(Presented, aud)), now,
                                 IF fetched = "none" THEN "ok" ELSE fetched)
                = verifyResult

\* A token without aud was accepted on the asymmetric path.
C14_Witness ==
    /\ Verified /\ Presented.aud = Null /\ Presented.alg = "ES256"
    /\ verifyResult.kind = "identity"

\* C15 as claimed: a correctly signed token is accepted at every time up
\* to and including exp + 30 and rejected as expired at every later time.
C15_AcceptedThroughSkew ==
    (Verified /\ CorrectlySigned(Presented)) =>
        /\ (now <= Presented.exp + Leeway /\ SubjectIsIdentifier(Presented)) =>
               verifyResult.kind = "identity"
        /\ now > Presented.exp + Leeway => Failed401("Token has expired")

\* C15, amended: a correctly signed token is accepted at every time before
\* exp + 30 and rejected as expired from exp + 30 on.
C15_SkewBoundary ==
    (Verified /\ CorrectlySigned(Presented)) =>
        /\ (now < Presented.exp + Leeway /\ SubjectIsIdentifier(Presented)) =>
               verifyResult.kind = "identity"
        /\ now >= Presented.exp + Leeway => Failed401("Token has expired")

\* A token whose exp lies 29 seconds back was accepted.
C15_Witness ==
    /\ Verified /\ CorrectlySigned(Presented)
    /\ now = Presented.exp + Leeway - 1
    /\ verifyResult.kind = "identity"

\* A token that names a published key-id is verified.
VerifiesPublishedKid ==
    /\ pc = "idle" /\ pc' = "verified"
    /\ AsksJwks(credentials')
    /\ credentials'.token.kid \in PublishedKids

SignupAnswered == pc = "signup_done" /\ signupResponse.kind = "response"

\* The provider reported that the email has an account already.
DuplicateReported ==
    /\ SignupAnswered
    /\ Registered(signupBody.email)
    /\ signupResponse \in DuplicateReports

\* The code recognises the report: status 422, or a message with
\* "already registered" in it, in whatever letter case.
Recognised(r) ==
    \/ r.status = 422
    \/ SignupErrorDetail(r.body)
           \in {"User already registered", "Email Already Registered"}

\* C17 as claimed: signup with an email that has an account already ends
\* with 409, whatever status and wording the provider reports it with.
C17_DuplicateIsConflict ==
    DuplicateReported => signupResult.status = HTTP_409_CONFLICT

\* C17, amended: signup with an email that has an account already ends
\* with 409 when the provider reports it with status 422 or with a message
\* that has "already registered" in it, in whatever letter case; reported
\* with another status and another wording it ends with 400 and that
\* message.
C17_RecognisedDuplicateIsConflict ==
    DuplicateReported =>
        /\ signupResult.kind = "HTTPException"
        /\ IF Recognised(signupResponse)
           THEN /\ signupResult.status = HTTP_409_CONFLICT
                /\ signupResult.detail = "Email already registered"
           ELSE /\ signupResult.status = HTTP_400_BAD_REQUEST
                /\ signupResult.detail = SignupErrorDetail(signupResponse.body)

\* A duplicate reported with status 400 and upper-case letters ended with
\* 409.
C17_Witness ==
    /\ DuplicateReported
    /\ signupResponse.status = 400
    /\ signupResponse.body.message = "Email Already Registered"
    /\ signupResult.status = HTTP_409_CONFLICT

\* C18 as claimed: a 4xx answer of the provider that does not report a
\* duplicate (a password too weak, say) ends with 400, never with 409; an
\* exception of the provider call ends with 503.
C18_OtherRefusalIsBadRequest ==
    /\ (SignupAnswered /\ ~Registered(signupBody.email)
        /\ signupResponse.status \in 400..499) =>
           signupResult.status = HTTP_400_BAD_REQUEST
    /\ (pc = "signup_done" /\ signupResponse.kind \in {"network_error", "timeout"}) =>
           signupResult.status = HTTP_503_SERVICE_UNAVAILABLE

\* The provider created the user and said so in a well-formed body.
SignupCreatedUser ==
    /\ SignupAnswered
    /\ signupResponse.status \in {200, 201}
    /\ signupResponse.body.json
    /\ signupResponse.body.user.present

\* The session of the response carries an access token.
SessionHasToken ==
    /\ signupResponse.body.session.present
    /\ signupResponse.body.session.access_token.wellformed

\* The token presented is the one signup handed out.
PresentsSignupToken ==
    /\ Verified
    /\ issued.origin = "signup"
    /\ Presented = issued.token

\* C19: after the provider created the user (200 or 201), signup hands
\* out the access token of the session when the response has one, else a
\* token of its own: HS256 under the shared secret, sub the id of the new
\* user, expiring one hour after it was issued. Either token, presented
\* within its validity (the key set at hand for the provider's), yields
\* the new user's identity.
C19_SignupTokenVerifies ==
    /\ SignupCreatedUser =>
           /\ signupResult.kind = "success"
           /\ signupResult.user.id = signupResponse.body.user.id
           /\ IF SessionHasToken
              THEN signupResult.access_token
                       = signupResponse.body.session.access_token
              ELSE /\ signupResult.access_token.alg = "HS256"
                   /\ signupResult.access_token.sigkey = JWT_SECRET
                   /\ signupResult.access_token.sub = signupResponse.body.user.id
                   /\ signupResult.access_token.exp
                          = signupResult.access_token.iat + TokenTTL
                   /\ signupResult.access_token.iat <= now
    /\ (PresentsSignupToken /\ WithinValidity(Presented)
        /\ fetched \in {"none", "ok"}) =>
           /\ verifyResult.kind = "identity"
           /\ SameUUID(verifyResult.identity.user_id, issued.user_id)

\* The token signup made itself was presented and accepted.
C19_Witness ==
    /\ PresentsSignupToken
    /\ Presented.alg = "HS256"
    /\ verifyResult.kind = "identity"
    /\ verifyResult.identity.user_id = UUID3

\* A flow has ended after its call failed in transport, or after the
\* request was refused: by the provider with a status that is not 200, or
\* by update_profile for its lack of fields.
TransportFailed ==
    /\ pc = "flow_done"
    /\ flowOutcome.kind \in {"network_error", "timeout", "update_raises",
                             "upsert_raises"}
RequestRefused ==
    /\ pc = "flow_done"
    /\ \/ flowOutcome.kind = "response" /\ flowOutcome.status # 200
       \/ flow = "update_profile" /\ flowOutcome.kind = "not_called"

C30_SignupEndsCategorised ==
    pc = "signup_done" =>
        \/ /\ signupResult.kind = "success"
           /\ signupResult.access_token.wellformed
        \/ /\ signupResult.kind = "HTTPException"
           /\ signupResult.status \in {HTTP_409_CONFLICT, HTTP_400_BAD_REQUEST,
                                       HTTP_503_SERVICE_UNAVAILABLE}

(* ------------------------------------------------------------------ *)
(* Claims on the name login returns                                    *)
(* ------------------------------------------------------------------ *)

LoginSucceeded == pc = "done" /\ loginResult.kind = "success"

\* C22: the user.name of a successful login is never empty. After a grant
\* of the provider it is the metadata name, else the metadata full_name,
\* else the whole email address; after the fallback it is the stored
\* name, else the text of the email before the "@".
C22_LoginNameIsResolved ==
    LoginSucceeded =>
        /\ loginResult.user.name \notin {Null, ""}
        /\ IF ProviderGranted
           THEN LET user == response.body.user
                IN  loginResult.user.name =
                        IF user.name \notin {Null, ""} THEN user.name
                        ELSE IF user.full_name \notin {Null, ""}
                        THEN user.full_name
                        ELSE user.email
           ELSE LET row == result.data[1]
                IN  loginResult.user.name =
                        IF row.name \notin {Null, ""} THEN row.name
                        ELSE LocalPart(row.email)

\* A fallback login whose row has the empty string as name returned the
\* local part of the email.
C22_Witness ==
    /\ LoginSucceeded
    /\ ~ProviderGranted
    /\ result.data[1].name = ""
    /\ result.data[1].email = "b@y.org"
    /\ loginResult.user.name = "b"

(* ------------------------------------------------------------------ *)
(* Claims on sessions                                                  *)
(* ------------------------------------------------------------------ *)

\* The token presented is the one of the session that was logged out.
PresentsLoggedOut ==
    /\ Verified
    /\ loggedOut.origin # "none"
    /\ Presented = loggedOut.token

\* C21: logout changes nothing the server holds, and the token of a
\* session that was logged out, presented within its validity (the key
\* set at hand for a token of the provider), still yields the identity of
\* its user, whatever logins, signups and logouts came after.
C21_LogoutRevokesNothing ==
    /\ [](PresentsLoggedOut /\ WithinValidity(Presented)
          /\ fetched \in {"none", "ok"} =>
              /\ verifyResult.kind = "identity"
              /\ SameUUID(verifyResult.identity.user_id, loggedOut.user_id))
    /\ [][loggedOut' # loggedOut => UNCHANGED << jwkSetCache, issued, now >>]_vars

\* The token of a fallback login was accepted one second before its
\* expiry, after its session was logged out and another session begun.
C21_Witness ==
    /\ PresentsLoggedOut
    /\ loggedOut.origin = "fallback"
    /\ issued.token # loggedOut.token
    /\ now = loggedOut.token.exp - 1
    /\ verifyResult.kind = "identity"

\* A token made by the server itself has the shape of one session token:
\* HS256 under the shared secret, aud and role "authenticated", expiring
\* one hour after it was issued, for the user of the given id and email.
IsSessionTokenOf(tok, id, email) ==
    /\ tok.wellformed
    /\ tok.alg = "HS256" /\ tok.sigkey = JWT_SECRET
    /\ tok.aud = "authenticated" /\ tok.role = "authenticated"
    /\ tok.exp = tok.iat + TokenTTL /\ tok.exp > tok.iat
    /\ tok.sub = id /\ tok.email = email

\* login has succeeded on the fallback path; signup has succeeded for a
\* response without a session token.
MintedByLogin == LoginSucceeded /\ fallbackCalls > 0
MintedBySignup ==
    /\ pc = "signup_done" /\ signupResult.kind = "success"
    /\ ~SessionHasToken

\* C25: the token login makes on the fallback path and the token signup
\* makes for a user without a session are HS256 under the shared secret,
\* with aud and role "authenticated", exp one hour after iat, and sub and
\* email the id and email of the user the response names.
C25_MintedTokenShape ==
    /\ MintedByLogin =>
           /\ IsSessionTokenOf(loginResult.access_token,
                               result.data[1].id, result.data[1].email)
           /\ loginResult.user.id = result.data[1].id
           /\ loginResult.user.email = result.data[1].email
    /\ MintedBySignup =>
           /\ IsSessionTokenOf(signupResult.access_token,
                               signupResponse.body.user.id,
                               signupResponse.body.user.email)
           /\ signupResult.user.id = signupResponse.body.user.id
           /\ signupResult.user.email = signupResponse.body.user.email

\* signup made a token for the new user, whose email is still to be
\* confirmed, after a login had made one on the fallback path.
C25_Witness ==
    /\ MintedBySignup
    /\ issued.origin = "fallback"
    /\ signupResult.access_token.sub = UUID3
    /\ signupResult.access_token.email = "new@z.io"
    /\ signupResult.access_token.exp = now + TokenTTL
    /\ ~signupResult.user.email_confirmed

(* ------------------------------------------------------------------ *)
(* Claims on dev logs, statistics and projects                         *)
(* ------------------------------------------------------------------ *)

\* The days of a period, both ends included, as get_stats filters them.
DaysOf(from_date, to_date) == {d \in from_date..to_date : TRUE}

\* C27 as claimed: the period that the dashboard statistics compare with
\* ends the day before the current period starts, shares no day with it,
\* and has as many days as the current period, both ends included.
C27_PreviousPeriodSameLength ==
    reply.op = "get_dashboard_stats" =>
        /\ reply.prev_to = reply.from_date - 1
        /\ DaysOf(reply.prev_from, reply.prev_to)
               \cap DaysOf(reply.from_date, reply.to_date) = {}
        /\ Cardinality(DaysOf(reply.prev_from, reply.prev_to))
               = Cardinality(DaysOf(reply.from_date, reply.to_date))

\* The pages from the given one to the last, one after the other, of
\* get_logs with the store as it is.
RECURSIVE PagesFrom(_, _, _, _, _, _)
PagesFrom(user_id, project_id, range, page, last, page_size) ==
    IF page > last THEN << >>
    ELSE Repository_get_logs(logs_db, user_id, project_id, range[1],
                             range[2], page, page_size).logs
         \o PagesFrom(user_id, project_id, range, page + 1, last, page_size)

\* The page sizes the pages are put together for.
ClaimPageSizes == {1, 2}

\* The call answered last was get_logs.
GotLogs == reply.op = "get_logs" /\ reply.status = 200

\* C26: for every user, filter and page size, the pages of get_logs put
\* one after the other hold every matching log of the user once, the
\* later log_date first and, on one day, the later created_at first; the
\* total of a page is the number of matching logs, and has_more is true
\* exactly when a later page holds a log.
C26_PagesPartition ==
    /\ \A user_id \in LogUsers, project_id \in {Null} \cup ProjectIds,
          range \in DateRanges, page_size \in ClaimPageSizes :
         LET matching == Matching(logs_db, user_id, project_id,
                                  range[1], range[2])
             all == PagesFrom(user_id, project_id, range, 1,
                              Cardinality(matching) + 1, page_size)
         IN  /\ Len(all) = Cardinality(matching)
             /\ {all[i].id : i \in 1..Len(all)} = matching
             /\ \A i \in 1..Len(all) : \A j \in (i + 1)..Len(all) :
                    \/ all[i].log_date.day > all[j].log_date.day
                    \/ /\ all[i].log_date.day = all[j].log_date.day
                       /\ all[i].created_at > all[j].created_at
    /\ GotLogs =>
           LET matching == Matching(logs_db, reply.user_id, reply.project_id,
                                    reply.from_date, reply.to_date)
               later == PagesFrom(reply.user_id, reply.project_id,
                                  << reply.from_date, reply.to_date >>,
                                  reply.page + 1, Cardinality(matching) + 1,
                                  reply.page_size)
           IN  /\ reply.total = Cardinality(matching)
               /\ reply.has_more <=> later # << >>

\* The second page of the three logs of the mock user, two to a page, is
\* the oldest log and the last page.
C26_Witness ==
    /\ GotLogs
    /\ reply.user_id = UUID1 /\ reply.page = reply.page_size
    /\ reply.total = Cardinality(DOMAIN MockLogs)
    /\ Len(reply.items) = 1 /\ reply.items[1].id = "uuid-log3"
    /\ ~reply.has_more

\* The answers that carry logs, and the calls that name one log.
ReadsLogs == reply.op \in {"get_log", "get_logs", "export_logs"}
NamesLog == reply.op \in {"get_log", "update_log", "delete_log"}

\* The log is not there, or it is another user's.
NotOwned(log_id, user_id) ==
    log_id \notin DOMAIN logs_db \/ logs_db[log_id].user_id # user_id

\* C24: whatever logs the users have created, updated and deleted,
\* get_log, get_logs and the export hand a user only logs of that user
\* and the statistics count only those; and get, update or delete of a
\* log that is not there or is another user's answers 404 and leaves the
\* store of logs as it was. No call changes the owner of a log.
C24_OwnLogsOnly ==
    /\ [](/\ ReadsLogs =>
                \A i \in 1..Len(reply.items) :
                    /\ reply.items[i].id \in DOMAIN logs_db
                    /\ logs_db[reply.items[i].id].user_id = reply.user_id
          /\ reply.op \in {"get_log", "get_logs"} =>
                \A i \in 1..Len(reply.items) :
                    reply.items[i].user_id = reply.user_id
          /\ reply.op = "get_dashboard_stats" =>
                reply.logs_this_week =
                    Cardinality({id \in DOMAIN logs_db :
                        /\ logs_db[id].user_id = reply.user_id
                        /\ logs_db[id].log_date.day
                               \in reply.from_date..reply.to_date}))
    /\ [][/\ (NamesLog' /\ NotOwned(reply'.log_id, reply'.user_id)) =>
                /\ reply'.status = HTTP_404_NOT_FOUND
                /\ logs_db' = logs_db
          /\ \A id \in DOMAIN logs_db \cap DOMAIN logs_db' :
                logs_db'[id].user_id = logs_db[id].user_id]_vars

\* The update of the mock user's log by the second user, who has a log
\* too, was answered 404.
C24_Witness ==
    /\ reply.op = "update_log"
    /\ reply.user_id = UUID2 /\ reply.log_id = "uuid-log1"
    /\ reply.status = HTTP_404_NOT_FOUND
    /\ logs_db["uuid-log1"] = MockLogs["uuid-log1"]
    /\ NewLogId \in DOMAIN logs_db /\ logs_db[NewLogId].user_id = UUID2

\* The ids of the logs that the answer carries.
Returned == {reply.items[i].id : i \in 1..Len(reply.items)}

\* The logs of the caller whose project and day, as last written by
\* create_log or update_log, are what the filters of the call ask for.
Asked ==
    {id \in DOMAIN logs_db :
        /\ logs_db[id].user_id = reply.user_id
        /\ reply.project_id # Null => logs_db[id].project_id.hex = reply.project_id
        /\ reply.from_date # NoDate => logs_db[id].log_date.day >= reply.from_date
        /\ reply.to_date # NoDate => logs_db[id].log_date.day <= reply.to_date}

\* C28 as claimed: a first page of get_logs that is the only one holds
\* exactly the caller's logs whose project is the one asked for and whose
\* day is in the range asked for, with project and day as update_log has
\* set them: the log moved to a project is there under that project and
\* is not there under its former one.
C28_UpdateIsVisible ==
    (GotLogs /\ reply.page = 1 /\ ~reply.has_more) => Returned = Asked

\* The users that own a project of the given name.
OwnersOfNamed(name) ==
    {projects_db[p].user_id : p \in {k \in DOMAIN projects_db :
                                         projects_db[k].name = name}}

\* C29 as claimed: the project name that a log carries when get_log,
\* get_logs, update_log or the export hands it to a user is absent or the
\* name of a project of that user.
C29_ProjectOfOwnOnly ==
    /\ reply.op \in {"get_log", "get_logs", "update_log"} =>
           \A i \in 1..Len(reply.items) :
               reply.items[i].project_name # Null =>
                   OwnersOfNamed(reply.items[i].project_name) = {reply.user_id}
    /\ reply.op = "export_logs" =>
           \A i \in 1..Len(reply.items) :
               reply.items[i].project # Null =>
                   OwnersOfNamed(reply.items[i].project) = {reply.user_id}

\* The rows of the table "projects" that delete_project has removed for
\* their owner.
DeletedProjects == ProjectRows \ projects

\* C23 as claimed: once delete_project has removed a project for its
\* owner, no log of that project is handed to the owner by get_log,
\* get_logs or the export, and none is counted by the statistics.
C23_DeletedProjectHasNoLogs ==
    \A row \in DeletedProjects :
        /\ (ReadsLogs /\ reply.user_id = row.user_id) =>
               \A i \in 1..Len(reply.items) :
                   logs_db[reply.items[i].id].project_id.hex # row.id
        /\ (reply.op = "get_dashboard_stats" /\ reply.user_id = row.user_id) =>
               \A id \in DOMAIN logs_db :
                   (/\ logs_db[id].user_id = reply.user_id
                    /\ logs_db[id].log_date.day
                           \in reply.from_date..reply.to_date) =>
                       logs_db[id].project_id.hex # row.id

====
